---- MODULE Spec2Model ----
(***************************************************************************)
(* Model of the rovel-desk playback engine: the session, the segment task  *)
(* table with its prefetch window, the handlers of API responses           *)
(* (handle_api_responses), of WebSocket pushes (handle_ws_responses), of   *)
(* the audio-finished signal (handle_audio_finished), the periodic systems *)
(* and the player UI intents.  One action per handler; requests travel in  *)
(* a bag because every request runs as its own task on the async pool and  *)
(* responses complete in any order.                                        *)
(***************************************************************************)
EXTENDS Integers, Sequences, FiniteSets, Bags, TLC

\* ------------------------------------------------------------------ bounds
MaxSessions == 2        \* sessions the server creates in one run
MaxInFlight == 2        \* requests outstanding on the async pool
MaxNow == 31            \* last clock value (seconds)
MaxPush == 1            \* task-state pushes delivered in one run
MaxIntents == 3         \* user intents in one run
MaxBuffers == 2         \* audio buffers handed to the audio player in one run
MaxQueue == 2           \* messages waiting in one channel of the audio player
MaxCalls == 3           \* insertions and updates made on a task manager taken alone

\* ------------------------------------------------------- program constants
PrefetchAhead == 3      \* AppState::init_task_manager: TaskManager::new(3)
PendingTimeout == 30    \* cleanup_stale_tasks_system: cleanup_stale_pending(30)

\* ------------------------------------------------------------ input domains
Novels == {"short", "long"}
Voices == {1, 2}
\* total_segments of the novels of the list: one shorter than the window, one
\* longer than it, so that its window slides near the start and is clamped
\* near the end
NovelTotal == [n \in Novels |-> IF n = "short" THEN PrefetchAhead - 1 ELSE PrefetchAhead + 2]
\* the voice selected by default (VoicesLoaded selects voices[0])
DefaultVoice == CHOOSE v \in Voices : \A w \in Voices : v <= w
\* the start index of every play intent (novel_list_ui sends start_index 0)
StartIndex == 0
\* the clock advances in steps that land on both sides of the timeout
TickSteps == {PendingTimeout, PendingTimeout + 1}
WsStates == {"inferring", "ready", "failed"}
AckStates == {"pending", "ready"}

Min(a, b) == IF a < b THEN a ELSE b

\* ---------------------------------------------------------------- state.rs
NoSession == [session_id |-> 0, novel_id |-> "", voice_id |-> 0, current_index |-> 0]

CurrentSession(sid, n, v, i) ==
    [session_id |-> sid, novel_id |-> n, voice_id |-> v, current_index |-> i]

\* impl From<&str> for TaskState
TaskStateFrom(s) ==
    CASE s = "pending" -> "Pending"
      [] s = "inferring" -> "Inferring"
      [] s = "ready" -> "Ready"
      [] s = "failed" -> "Failed"
      [] s = "cancelled" -> "Cancelled"
      [] OTHER -> "Pending"

SegmentTask(sid, tid, st, dur, err, at) ==
    [session_id |-> sid, task_id |-> tid, state |-> st,
     duration_ms |-> dur, error |-> err, created_at |-> at]

\* HashMap::new()
EmptyTasks == [i \in {} |-> SegmentTask(0, 0, "Pending", 0, 0, 0)]

\* a clear that keeps the entries
clear_Keep(t) == t

\* TaskManager::clear
clear(t) == EmptyTasks

RECURSIVE RangeMissing(_, _, _)
RangeMissing(t, i, end) ==
    IF i >= end THEN <<>>
    ELSE (IF i \in DOMAIN t THEN <<>> ELSE <<i>>) \o RangeMissing(t, i + 1, end)

\* the whole window, whatever the table holds
calculate_prefetch_range_All(t, ahead, current_index, total_segments) ==
    LET end == Min(current_index + ahead + 1, total_segments)
    IN RangeMissing(EmptyTasks, current_index, end)

\* TaskManager::calculate_prefetch_range
calculate_prefetch_range(t, ahead, current_index, total_segments) ==
    LET end == Min(current_index + ahead + 1, total_segments)
    IN RangeMissing(t, current_index, end)

\* a readiness test that accepts an entry in any state
is_segment_ready_Any(t, segment_index) == segment_index \in DOMAIN t

\* TaskManager::is_segment_ready
is_segment_ready(t, segment_index) ==
    IF segment_index \in DOMAIN t THEN t[segment_index].state = "Ready" ELSE FALSE

RECURSIVE add_pending_tasks(_, _, _, _)
\* an insertion that replaces the entries that exist
add_pending_tasks_Overwrite(t, session_id, indices, at) ==
    LET new == {indices[k] : k \in DOMAIN indices}
    IN [i \in DOMAIN t \cup new |->
          IF i \in new THEN SegmentTask(session_id, 0, "Pending", 0, 0, at) ELSE t[i]]

\* TaskManager::add_pending_tasks
add_pending_tasks(t, session_id, indices, at) ==
    IF indices = <<>> THEN t
    ELSE LET idx == Head(indices)
             t1 == IF idx \in DOMAIN t THEN t
                   ELSE [i \in DOMAIN t \cup {idx} |->
                           IF i = idx
                           THEN SegmentTask(session_id, 0, "Pending", 0, 0, at)
                           ELSE t[i]]
         IN add_pending_tasks(t1, session_id, Tail(indices), at)

\* WsEvent::TaskStateChanged
WsEvent(sid, tid, idx, st, dur, err) ==
    [session_id |-> sid, task_id |-> tid, segment_index |-> idx,
     state |-> st, duration_ms |-> dur, error |-> err]

\* update_task_state without its first session check
update_task_state_NoSessionCheck(t, current_session_id, ev, at) ==
    IF ev.segment_index \in DOMAIN t
    THEN IF t[ev.segment_index].session_id # ev.session_id THEN t
         ELSE [t EXCEPT ![ev.segment_index] =
                 [@ EXCEPT !.task_id = ev.task_id,
                           !.state = TaskStateFrom(ev.state),
                           !.duration_ms = ev.duration_ms,
                           !.error = ev.error,
                           !.created_at = at]]
    ELSE [i \in DOMAIN t \cup {ev.segment_index} |->
            IF i = ev.segment_index
            THEN SegmentTask(ev.session_id, ev.task_id, TaskStateFrom(ev.state),
                             ev.duration_ms, ev.error, at)
            ELSE t[i]]

\* TaskManager::update_task_state
update_task_state(t, current_session_id, ev, at) ==
    IF ev.session_id # current_session_id THEN t
    ELSE IF ev.segment_index \in DOMAIN t
         THEN IF t[ev.segment_index].session_id # ev.session_id THEN t
              ELSE [t EXCEPT ![ev.segment_index] =
                      [@ EXCEPT !.task_id = ev.task_id,
                                !.state = TaskStateFrom(ev.state),
                                !.duration_ms = ev.duration_ms,
                                !.error = ev.error,
                                !.created_at = at]]
         ELSE [i \in DOMAIN t \cup {ev.segment_index} |->
                 IF i = ev.segment_index
                 THEN SegmentTask(ev.session_id, ev.task_id, TaskStateFrom(ev.state),
                                  ev.duration_ms, ev.error, at)
                 ELSE t[i]]

\* a cleanup that removes the old entries whatever their state
cleanup_stale_pending_AnyState(t, timeout_secs, at) ==
    LET keep == {i \in DOMAIN t : ~(at - t[i].created_at > timeout_secs)}
    IN [i \in keep |-> t[i]]

\* TaskManager::cleanup_stale_pending
cleanup_stale_pending(t, timeout_secs, at) ==
    LET keep == {i \in DOMAIN t :
                   ~(t[i].state = "Pending" /\ at - t[i].created_at > timeout_secs)}
    IN [i \in keep |-> t[i]]


\* ------------------------------------------------------------- the server
\* task ids are assigned by the synthesis service; 0 models the empty string
ServerTaskId(sid, idx) == 10 * sid + idx

\* duration_ms accompanies "ready", error accompanies "failed" (0 models None)
ServerDuration(st) == IF st = "ready" THEN 1 ELSE 0

ServerError(st) == IF st = "failed" THEN 1 ELSE 0

\* ------------------------------------------------------- requests (ApiRequest)
\* old is a history flag, never read by a handler: it is set on a SubmitInfer
\* that was sent before the table was cleared by a seek, voice-change or close
\* acknowledgement, and on a LoadAudio that was sent before its session was
\* closed, replaced by a new play, or had its voice changed.
Req(type, sid, novel, voice, idx, indices) ==
    [type |-> type, session_id |-> sid, novel_id |-> novel, voice_id |-> voice,
     segment_index |-> idx, segment_indices |-> indices, old |-> FALSE]

Play(n, v, start) == Req("Play", 0, n, v, start, <<>>)

Seek(sid, idx) == Req("Seek", sid, "", 0, idx, <<>>)

ChangeVoice(sid, v) == Req("ChangeVoice", sid, "", v, 0, <<>>)

CloseSession(sid) == Req("CloseSession", sid, "", 0, 0, <<>>)

SubmitInfer(sid, indices) == Req("SubmitInfer", sid, "", 0, 0, indices)

LoadAudio(n, idx, v) == Req("LoadAudio", 0, n, v, idx, <<>>)

LoadSegments(n) == Req("LoadSegments", 0, n, 0, 0, <<>>)

SeqToBag(s) ==
    [e \in {s[i] : i \in DOMAIN s} |-> Cardinality({i \in DOMAIN s : s[i] = e})]

BagCount(B, e) == IF e \in DOMAIN B THEN B[e] ELSE 0

\* sets the history flag on the in-flight requests of the given type
MarkOld(B, type) ==
    LET mark(e) == IF e.type = type THEN [e EXCEPT !.old = TRUE] ELSE e
        S == {mark(e) : e \in DOMAIN B}
    IN [x \in S |-> IF x.type = type
                    THEN BagCount(B, [x EXCEPT !.old = FALSE]) + BagCount(B, x)
                    ELSE B[x]]

\* ------------------------------------------------------------------- state
VARIABLES
    view,                   \* AppView: "NovelList" | "Player"
    selected_novel,         \* AppState.selected_novel ("" models None)
    current_session,        \* AppState.current_session (NoSession models None)
    segments_len,           \* AppState.segments.len()
    loaded_range,           \* AppState.segment_pagination.loaded_range
    total_segments,         \* AppState.segment_pagination.total_segments
    current_segment_index,  \* AppState.current_segment_index
    playback_state,         \* AppState.playback_state
    waiting_for_audio,      \* AppState.waiting_for_audio
    error,                  \* AppState.error ("none" models None)
    tasks,                  \* AppState.task_manager.tasks
    prefetch_ahead,         \* AppState.task_manager.prefetch_ahead
    api_tasks,              \* the ApiTask entities: requests awaiting a response
    sink,                   \* the audio thread's current_sink
    now,                    \* Instant::now(), in seconds
    next_sid,               \* the next session id the server assigns
    pushes,                 \* task-state pushes delivered so far
    intents,                \* user intents issued so far
    submitted,              \* history: the segments the server was asked to synthesize
    last,                   \* history: the event handled by the last step
    emitted,                \* history: the ApiRequests sent by the last step
    emitted_audio,          \* history: the audio events sent by the last step
    command_tx,             \* AudioPlayer.command_tx: the commands not yet received
    status_rx,              \* AudioPlayer.status_rx: the statuses not yet polled
    current_status,         \* AudioPlayer.current_status
    has_notified_finished,  \* AudioPlayer.has_notified_finished
    current_sink,           \* audio_thread: current_sink (NoSink models None)
    finished_tagged,        \* history: AudioFinishedEvents per buffer reported Finished
    finished_events,        \* history: AudioFinishedEvents per buffer last handed over
    calls                   \* insertions and updates made on the task manager alone

vars == <<view, selected_novel, current_session, segments_len, loaded_range,
          total_segments, current_segment_index, playback_state,
          waiting_for_audio, error, tasks, prefetch_ahead, api_tasks, sink,
          now, next_sid, pushes, intents, submitted, last, emitted, emitted_audio,
          command_tx, status_rx, current_status, has_notified_finished,
          current_sink, finished_tagged, finished_events, calls>>

\* the variables of the audio player followed channel by channel
player_vars == <<command_tx, status_rx, current_status, has_notified_finished,
                 current_sink, finished_tagged, finished_events>>

\* the variables of the application, the history record of the step apart
app_vars == <<view, selected_novel, current_session, segments_len, loaded_range,
              total_segments, current_segment_index, playback_state,
              waiting_for_audio, error, tasks, prefetch_ahead, api_tasks, sink,
              now, next_sid, pushes, intents, submitted, emitted, emitted_audio,
              calls>>

\* AudioStatus, with the buffer it reports as a history tag
Status(status, buf) == [status |-> status, buf |-> buf]

\* the audio thread's Sink: its buffer, sink.is_paused(), sink.empty()
Sink(buf) == [buf |-> buf, paused |-> FALSE, empty |-> FALSE]

\* current_sink = None
NoSink == Sink(0)

\* AudioCommand; ok tells whether Decoder::new and Sink::try_new succeed
AudioCommand(cmd, buf, ok) == [cmd |-> cmd, buf |-> buf, ok |-> ok]

\* the handlers that drop the entries of the task table
ClearingOps ==
    {"PlayStarted", "SeekCompleted", "VoiceChanged", "SessionClosed",
     "WsSessionClosedByServer"}

\* the steps that end a stop the user asked for: another intent of the user
\* (ui.rs) or the response that starts, moves or ends a session
RestartOps ==
    {"UiPlayNovel", "UiPlayButton", "UiSeek", "UiChangeVoice", "UiResume",
     "UiPause", "UiBack", "UiReturnToList"} \cup ClearingOps

\* the history record of a step; failed collects the indices that were the
\* cursor with a Failed entry in a state since the table was last dropped,
\* purged the indices cleanup removed that had no entry again before the step,
\* stopped tells that the user's last intent was the stop button
Last(op, sid, idx, arg) ==
    [op |-> op, sid |-> sid, idx |-> idx, arg |-> arg,
     pre_sid |-> current_session.session_id, old |-> FALSE, ready |-> {},
     failed |-> IF op \in ClearingOps THEN {}
                ELSE last.failed \cup
                     {i \in DOMAIN tasks : /\ i = current_segment_index
                                           /\ tasks[i].state = "Failed"},
     purged |-> IF op \in ClearingOps THEN {} ELSE last.purged \ DOMAIN tasks,
     stopped |-> IF op = "UiStop" THEN TRUE
                 ELSE IF op \in RestartOps THEN FALSE ELSE last.stopped]

HasSession == current_session # NoSession

\* AppState::default(), AudioPlayer::new()
Init ==
    /\ view = "NovelList"
    /\ selected_novel = ""
    /\ current_session = NoSession
    /\ segments_len = 0
    /\ loaded_range = [start |-> 0, end |-> 0]
    /\ total_segments = 0
    /\ current_segment_index = 0
    /\ playback_state = "Stopped"
    /\ waiting_for_audio = FALSE
    /\ error = "none"
    /\ tasks = EmptyTasks
    /\ prefetch_ahead = 0
    /\ api_tasks = EmptyBag
    /\ sink = "none"
    /\ now = 0
    /\ next_sid = 1
    /\ pushes = 0
    /\ intents = 0
    /\ submitted = {}
    /\ last = [op |-> "Init", sid |-> 0, idx |-> 0, arg |-> "", pre_sid |-> 0,
               old |-> FALSE, ready |-> {}, failed |-> {}, purged |-> {},
               stopped |-> FALSE]
    /\ emitted = <<>>
    /\ emitted_audio = <<>>
    /\ command_tx = <<>>
    /\ status_rx = <<>>
    /\ current_status = Status("Idle", 0)
    /\ has_notified_finished = FALSE
    /\ current_sink = NoSink
    /\ finished_tagged = <<>>
    /\ finished_events = <<>>
    /\ calls = 0

\* the audio thread's handling of one AudioCommand (audio_thread)
RECURSIVE audio_thread(_, _)
audio_thread(s, cmds) ==
    IF cmds = <<>> THEN s
    ELSE LET c == Head(cmds)
             s1 == CASE c = "Play" -> "playing"
                     [] c = "Stop" -> "none"
                     [] c = "Pause" -> IF s # "none" THEN "paused" ELSE s
                     [] c = "Resume" -> IF s # "none" THEN "playing" ELSE s
         IN audio_thread(s1, Tail(cmds))

\* the segments a step's SubmitInfer requests ask the server for; old is a
\* history flag like that of Req: the table was cleared by a seek,
\* voice-change or close acknowledgement after the submission
SubmittedBy(reqs) ==
    UNION {{[session_id |-> reqs[k].session_id,
             segment_index |-> reqs[k].segment_indices[j], old |-> FALSE] :
               j \in DOMAIN reqs[k].segment_indices} :
           k \in {i \in DOMAIN reqs : reqs[i].type = "SubmitInfer"}}

\* what every step does with the requests and audio events it sends:
\* handle_api_requests spawns one task per request (rest: the requests that
\* stay in flight), the audio systems forward every audio event to the audio
\* thread (s: its sink before them); work is the server's work so far
Dispatch(rest, reqs, audio, s, work) ==
    /\ api_tasks' = rest (+) SeqToBag(reqs)
    /\ BagCardinality(api_tasks') <= MaxInFlight
    /\ emitted' = reqs
    /\ emitted_audio' = audio
    /\ sink' = audio_thread(s, audio)
    /\ submitted' = work \cup SubmittedBy(reqs)
    /\ UNCHANGED player_vars
    /\ UNCHANGED calls

\* a step that leaves the task table's entries in place
Sends(rest, reqs, audio, s) == Dispatch(rest, reqs, audio, s, submitted)

\* a step that has cleared the task table on a seek, voice-change or close
\* acknowledgement
SendsAfterClear(rest, reqs, audio, s) ==
    Dispatch(rest, reqs, audio, s, {[w EXCEPT !.old = TRUE] : w \in submitted})

\* a window submission without the optimistic insertion
submit_prefetch_NoInsert(t, ahead, sid, current, total, at) ==
    LET indices == calculate_prefetch_range(t, ahead, current, total)
    IN IF indices # <<>>
       THEN [tasks |-> t, reqs |-> <<SubmitInfer(sid, indices)>>]
       ELSE [tasks |-> t, reqs |-> <<>>]

\* the window submission every handler performs: calculate_prefetch_range,
\* then add_pending_tasks and one SubmitInfer when the range is not empty
submit_prefetch(t, ahead, sid, current, total, at) ==
    LET indices == calculate_prefetch_range(t, ahead, current, total)
    IN IF indices # <<>>
       THEN [tasks |-> add_pending_tasks(t, sid, indices, at),
             reqs |-> <<SubmitInfer(sid, indices)>>]
       ELSE [tasks |-> t, reqs |-> <<>>]


\* the number of in-flight requests of a type
InFlight(type) ==
    BagCardinality([e \in {x \in DOMAIN api_tasks : x.type = type} |-> api_tasks[e]])

\* ------------------------------------------------------------ ui.rs intents
\* novel_list_ui: the play button of a novel of the list
UiPlayNovel(n) ==
    /\ view = "NovelList"
    /\ next_sid + InFlight("Play") <= MaxSessions
    /\ selected_novel' = n
    /\ loaded_range' = [start |-> 0, end |-> 0]
    /\ total_segments' = NovelTotal[n]
    /\ view' = "Player"
    /\ Sends(api_tasks, <<Play(n, DefaultVoice, StartIndex)>>, <<>>, sink)
    /\ intents < MaxIntents
    /\ intents' = intents + 1
    /\ last' = Last("UiPlayNovel", 0, 0, "")
    /\ UNCHANGED <<current_session, segments_len, current_segment_index,
                   playback_state, waiting_for_audio, error, tasks,
                   prefetch_ahead, now, next_sid, pushes>>

\* player_ui: the back button
UiBack ==
    /\ view = "Player"
    /\ HasSession
    /\ view' = "NovelList"
    /\ Sends(api_tasks, <<CloseSession(current_session.session_id)>>, <<"Stop">>, sink)
    /\ intents < MaxIntents
    /\ intents' = intents + 1
    /\ last' = Last("UiBack", current_session.session_id, 0, "")
    /\ UNCHANGED <<selected_novel, current_session, segments_len, loaded_range,
                   total_segments, current_segment_index, playback_state,
                   waiting_for_audio, error, tasks, prefetch_ahead, now,
                   next_sid, pushes>>

\* player_ui without a session: the return-to-list button
UiReturnToList ==
    /\ view = "Player"
    /\ ~HasSession
    /\ view' = "NovelList"
    /\ Sends(api_tasks, <<>>, <<>>, sink)
    /\ intents < MaxIntents
    /\ intents' = intents + 1
    /\ last' = Last("UiReturnToList", 0, 0, "")
    /\ UNCHANGED <<selected_novel, current_session, segments_len, loaded_range,
                   total_segments, current_segment_index, playback_state,
                   waiting_for_audio, error, tasks, prefetch_ahead, now,
                   next_sid, pushes>>

\* player_ui: the voice selector
UiChangeVoice(v) ==
    /\ view = "Player"
    /\ HasSession
    /\ v # current_session.voice_id
    /\ Sends(api_tasks, <<ChangeVoice(current_session.session_id, v)>>, <<>>, sink)
    /\ intents < MaxIntents
    /\ intents' = intents + 1
    /\ last' = Last("UiChangeVoice", current_session.session_id, 0, "")
    /\ UNCHANGED <<view, selected_novel, current_session, segments_len,
                   loaded_range, total_segments, current_segment_index,
                   playback_state, waiting_for_audio, error, tasks,
                   prefetch_ahead, now, next_sid, pushes>>

\* player_ui: the previous-segment and next-segment buttons
UiSeekStep(idx) ==
    /\ view = "Player"
    /\ HasSession
    /\ \/ current_segment_index > 0 /\ idx = current_segment_index - 1
       \/ current_segment_index + 1 < total_segments /\ idx = current_segment_index + 1
    /\ Sends(api_tasks, <<Seek(current_session.session_id, idx)>>, <<"Stop">>, sink)
    /\ intents < MaxIntents
    /\ intents' = intents + 1
    /\ last' = Last("UiSeek", current_session.session_id, idx, "step")
    /\ UNCHANGED <<view, selected_novel, current_session, segments_len,
                   loaded_range, total_segments, current_segment_index,
                   playback_state, waiting_for_audio, error, tasks,
                   prefetch_ahead, now, next_sid, pushes>>

\* player_ui: the progress slider released at new_index
UiSeekSlider(new_index) ==
    /\ view = "Player"
    /\ HasSession
    /\ new_index < total_segments
    /\ new_index # current_segment_index
    /\ IF new_index >= loaded_range.start /\ new_index < loaded_range.end
       THEN /\ Sends(api_tasks, <<Seek(current_session.session_id, new_index)>>,
                     <<"Stop">>, sink)
            /\ UNCHANGED <<segments_len, loaded_range>>
       ELSE /\ segments_len' = 0
            /\ loaded_range' = [start |-> 0, end |-> 0]
            /\ Sends(api_tasks,
                     <<LoadSegments(current_session.novel_id),
                       Seek(current_session.session_id, new_index)>>,
                     <<"Stop">>, sink)
    /\ intents < MaxIntents
    /\ intents' = intents + 1
    /\ last' = Last("UiSeek", current_session.session_id, new_index, "slider")
    /\ UNCHANGED <<view, selected_novel, current_session, total_segments,
                   current_segment_index, playback_state, waiting_for_audio,
                   error, tasks, prefetch_ahead, now, next_sid, pushes>>

\* player_ui: a click on a segment of the list
UiSeekClick(idx) ==
    /\ view = "Player"
    /\ HasSession
    /\ idx < segments_len
    /\ idx < total_segments
    /\ Sends(api_tasks, <<Seek(current_session.session_id, idx)>>, <<>>, sink)
    /\ intents < MaxIntents
    /\ intents' = intents + 1
    /\ last' = Last("UiSeek", current_session.session_id, idx, "click")
    /\ UNCHANGED <<view, selected_novel, current_session, segments_len,
                   loaded_range, total_segments, current_segment_index,
                   playback_state, waiting_for_audio, error, tasks,
                   prefetch_ahead, now, next_sid, pushes>>

\* player_ui: the play button shown while Stopped
UiPlayButton ==
    /\ view = "Player"
    /\ HasSession
    /\ playback_state = "Stopped"
    /\ LET current == current_segment_index
           sub == submit_prefetch(tasks, prefetch_ahead, current_session.session_id,
                                  current, total_segments, now)
           ready == is_segment_ready(sub.tasks, current)
           load == IF ready
                   THEN <<LoadAudio(current_session.novel_id, current,
                                    current_session.voice_id)>>
                   ELSE <<>>
       IN /\ tasks' = sub.tasks
          /\ playback_state' = IF ready THEN playback_state ELSE "Loading"
          /\ waiting_for_audio' = IF ready THEN waiting_for_audio ELSE TRUE
          /\ Sends(api_tasks, sub.reqs \o load, <<>>, sink)
    /\ intents < MaxIntents
    /\ intents' = intents + 1
    /\ last' = Last("UiPlayButton", current_session.session_id, current_segment_index, "")
    /\ UNCHANGED <<view, selected_novel, current_session, segments_len,
                   loaded_range, total_segments, current_segment_index, error,
                   prefetch_ahead, now, next_sid, pushes>>

\* a stop button that also drops the task table
UiStop_ClearTable ==
    /\ view = "Player"
    /\ HasSession
    /\ playback_state \in {"Loading", "Playing", "Paused"}
    /\ playback_state' = "Stopped"
    /\ tasks' = clear(tasks)
    /\ Sends(api_tasks, <<>>, <<"Stop">>, sink)
    /\ intents < MaxIntents
    /\ intents' = intents + 1
    /\ last' = Last("UiStop", current_session.session_id, 0, playback_state)
    /\ UNCHANGED <<view, selected_novel, current_session, segments_len,
                   loaded_range, total_segments, current_segment_index,
                   waiting_for_audio, error, prefetch_ahead, now,
                   next_sid, pushes>>

\* player_ui: the stop button shown while Loading, Playing or Paused
UiStop ==
    /\ view = "Player"
    /\ HasSession
    /\ playback_state \in {"Loading", "Playing", "Paused"}
    /\ playback_state' = "Stopped"
    /\ Sends(api_tasks, <<>>, <<"Stop">>, sink)
    /\ intents < MaxIntents
    /\ intents' = intents + 1
    /\ last' = Last("UiStop", current_session.session_id, 0, playback_state)
    /\ UNCHANGED <<view, selected_novel, current_session, segments_len,
                   loaded_range, total_segments, current_segment_index,
                   waiting_for_audio, error, tasks, prefetch_ahead, now,
                   next_sid, pushes>>

\* player_ui: the pause button shown while Playing
UiPause ==
    /\ view = "Player"
    /\ HasSession
    /\ playback_state = "Playing"
    /\ playback_state' = "Paused"
    /\ Sends(api_tasks, <<>>, <<"Pause">>, sink)
    /\ intents < MaxIntents
    /\ intents' = intents + 1
    /\ last' = Last("UiPause", current_session.session_id, 0, "")
    /\ UNCHANGED <<view, selected_novel, current_session, segments_len,
                   loaded_range, total_segments, current_segment_index,
                   waiting_for_audio, error, tasks, prefetch_ahead, now,
                   next_sid, pushes>>

\* player_ui: the resume button shown while Paused
UiResume ==
    /\ view = "Player"
    /\ HasSession
    /\ playback_state = "Paused"
    /\ playback_state' = "Playing"
    /\ Sends(api_tasks, <<>>, <<"Resume">>, sink)
    /\ intents < MaxIntents
    /\ intents' = intents + 1
    /\ last' = Last("UiResume", current_session.session_id, 0, "")
    /\ UNCHANGED <<view, selected_novel, current_session, segments_len,
                   loaded_range, total_segments, current_segment_index,
                   waiting_for_audio, error, tasks, prefetch_ahead, now,
                   next_sid, pushes>>


\* ------------------------------------------- systems.rs handle_api_responses
\* an in-flight request r and the bag without it
Pending(r) == r \in DOMAIN api_tasks

Rest(r) == api_tasks (-) SetToBag({r})

\* a play success that keeps the task table
PlayStarted_KeepTable(r) ==
    /\ Pending(r)
    /\ r.type = "Play"
    /\ current_session' = CurrentSession(next_sid, r.novel_id, r.voice_id, r.segment_index)
    /\ next_sid' = next_sid + 1
    /\ current_segment_index' = r.segment_index
    /\ playback_state' = "Loading"
    /\ waiting_for_audio' = TRUE
    /\ tasks' = tasks
    /\ prefetch_ahead' = PrefetchAhead
    /\ error' = "none"
    /\ Sends(MarkOld(Rest(r), "LoadAudio"), <<LoadSegments(r.novel_id)>>, <<>>, sink)
    /\ last' = Last("PlayStarted", next_sid, r.segment_index, "")
    /\ UNCHANGED <<view, selected_novel, segments_len, loaded_range,
                   total_segments, now, pushes, intents>>

\* ApiResponse::PlayStarted: the server creates a session with a fresh id
PlayStarted(r) ==
    /\ Pending(r)
    /\ r.type = "Play"
    /\ current_session' = CurrentSession(next_sid, r.novel_id, r.voice_id, r.segment_index)
    /\ next_sid' = next_sid + 1
    /\ current_segment_index' = r.segment_index
    /\ playback_state' = "Loading"
    /\ waiting_for_audio' = TRUE
    /\ tasks' = EmptyTasks
    /\ prefetch_ahead' = PrefetchAhead
    /\ error' = "none"
    /\ Sends(MarkOld(Rest(r), "LoadAudio"), <<LoadSegments(r.novel_id)>>, <<>>, sink)
    /\ last' = Last("PlayStarted", next_sid, r.segment_index, "")
    /\ UNCHANGED <<view, selected_novel, segments_len, loaded_range,
                   total_segments, now, pushes, intents>>

\* a seek acknowledgement applied whatever session it names
SeekCompleted_AnySession(r) ==
    /\ Pending(r)
    /\ r.type = "Seek"
    /\ IF TRUE
       THEN LET sub == submit_prefetch(clear(tasks), prefetch_ahead, r.session_id,
                                       r.segment_index, total_segments, now)
            IN /\ current_session' = [current_session EXCEPT !.current_index = r.segment_index]
               /\ current_segment_index' = r.segment_index
               /\ playback_state' = "Loading"
               /\ waiting_for_audio' = TRUE
               /\ tasks' = sub.tasks
               /\ SendsAfterClear(MarkOld(Rest(r), "SubmitInfer"), sub.reqs, <<>>, sink)
       ELSE /\ Sends(Rest(r), <<>>, <<>>, sink)
            /\ UNCHANGED <<current_session, current_segment_index, playback_state,
                           waiting_for_audio, tasks>>
    /\ error' = "none"
    /\ last' = Last("SeekCompleted", r.session_id, r.segment_index, "")
    /\ UNCHANGED <<view, selected_novel, segments_len, loaded_range,
                   total_segments, prefetch_ahead, now, next_sid, pushes, intents>>

\* ApiResponse::SeekCompleted: the server echoes the session id and the index
SeekCompleted(r) ==
    /\ Pending(r)
    /\ r.type = "Seek"
    /\ IF HasSession /\ current_session.session_id = r.session_id
       THEN LET sub == submit_prefetch(clear(tasks), prefetch_ahead, r.session_id,
                                       r.segment_index, total_segments, now)
            IN /\ current_session' = [current_session EXCEPT !.current_index = r.segment_index]
               /\ current_segment_index' = r.segment_index
               /\ playback_state' = "Loading"
               /\ waiting_for_audio' = TRUE
               /\ tasks' = sub.tasks
               /\ SendsAfterClear(MarkOld(Rest(r), "SubmitInfer"), sub.reqs, <<>>, sink)
       ELSE /\ Sends(Rest(r), <<>>, <<>>, sink)
            /\ UNCHANGED <<current_session, current_segment_index, playback_state,
                           waiting_for_audio, tasks>>
    /\ error' = "none"
    /\ last' = Last("SeekCompleted", r.session_id, r.segment_index, "")
    /\ UNCHANGED <<view, selected_novel, segments_len, loaded_range,
                   total_segments, prefetch_ahead, now, next_sid, pushes, intents>>

\* ApiResponse::VoiceChanged: the server echoes the session id and the voice
VoiceChanged(r) ==
    /\ Pending(r)
    /\ r.type = "ChangeVoice"
    /\ IF HasSession /\ current_session.session_id = r.session_id
       THEN LET current == current_session.current_index
                sub == submit_prefetch(clear(tasks), prefetch_ahead, r.session_id,
                                       current, total_segments, now)
            IN /\ current_session' = [current_session EXCEPT !.voice_id = r.voice_id]
               /\ playback_state' = "Loading"
               /\ waiting_for_audio' = TRUE
               /\ tasks' = sub.tasks
               /\ SendsAfterClear(MarkOld(MarkOld(Rest(r), "SubmitInfer"), "LoadAudio"),
                                  sub.reqs, <<>>, sink)
       ELSE /\ Sends(Rest(r), <<>>, <<>>, sink)
            /\ UNCHANGED <<current_session, playback_state, waiting_for_audio, tasks>>
    /\ error' = "none"
    /\ last' = Last("VoiceChanged", r.session_id, r.voice_id, "")
    /\ UNCHANGED <<view, selected_novel, segments_len, loaded_range, total_segments,
                   current_segment_index, prefetch_ahead, now, next_sid, pushes, intents>>

\* a close acknowledgement that leaves the playback state
SessionClosed_KeepPlayback(r) ==
    /\ Pending(r)
    /\ r.type = "CloseSession"
    /\ current_session' = NoSession
    /\ tasks' = clear(tasks)
    /\ error' = "none"
    /\ SendsAfterClear(MarkOld(MarkOld(Rest(r), "SubmitInfer"), "LoadAudio"), <<>>, <<>>, sink)
    /\ last' = Last("SessionClosed", r.session_id, 0, "")
    /\ UNCHANGED <<view, selected_novel, playback_state, segments_len, loaded_range, total_segments,
                   current_segment_index, waiting_for_audio, prefetch_ahead, now,
                   next_sid, pushes, intents>>

\* ApiResponse::SessionClosed
SessionClosed(r) ==
    /\ Pending(r)
    /\ r.type = "CloseSession"
    /\ current_session' = NoSession
    /\ playback_state' = "Stopped"
    /\ tasks' = clear(tasks)
    /\ error' = "none"
    /\ SendsAfterClear(MarkOld(MarkOld(Rest(r), "SubmitInfer"), "LoadAudio"), <<>>, <<>>, sink)
    /\ last' = Last("SessionClosed", r.session_id, 0, "")
    /\ UNCHANGED <<view, selected_novel, segments_len, loaded_range, total_segments,
                   current_segment_index, waiting_for_audio, prefetch_ahead, now,
                   next_sid, pushes, intents>>

\* TaskInfo of a SubmitInferResponse
TaskInfo(tid, idx, st) == [task_id |-> tid, segment_index |-> idx, state |-> st]

RECURSIVE ApplyTaskInfos(_, _)
\* a loop that inserts an entry for an acknowledged index that has none
ApplyTaskInfos_Insert(t, infos) ==
    LET acked == {infos[k].segment_index : k \in DOMAIN infos}
        info(i) == infos[CHOOSE k \in DOMAIN infos : infos[k].segment_index = i]
    IN [i \in DOMAIN t \cup acked |->
          IF i \notin acked THEN t[i]
          ELSE IF i \in DOMAIN t
               THEN [t[i] EXCEPT !.task_id = info(i).task_id,
                                 !.state = TaskStateFrom(info(i).state)]
               ELSE SegmentTask(0, info(i).task_id, TaskStateFrom(info(i).state),
                                0, 0, 0)]

\* the loop of InferSubmitted over the acknowledged tasks
ApplyTaskInfos(t, infos) ==
    IF infos = <<>> THEN t
    ELSE LET task == Head(infos)
             t1 == IF task.segment_index \in DOMAIN t
                   THEN [t EXCEPT ![task.segment_index] =
                           [@ EXCEPT !.task_id = task.task_id,
                                     !.state = TaskStateFrom(task.state)]]
                   ELSE t
         IN ApplyTaskInfos(t1, Tail(infos))

\* an acknowledgement handler that never fetches audio
InferSubmitted_NoFetch(r, states) ==
    /\ Pending(r)
    /\ r.type = "SubmitInfer"
    /\ LET infos == [k \in DOMAIN r.segment_indices |->
                       TaskInfo(ServerTaskId(r.session_id, r.segment_indices[k]),
                                r.segment_indices[k], states[k])]
           current_segment == current_segment_index
           current_ready == \E k \in DOMAIN infos :
                               /\ infos[k].segment_index = current_segment
                               /\ infos[k].state = "ready"
           load == IF /\ current_ready
                      /\ (waiting_for_audio \/ playback_state = "Loading")
                      /\ HasSession
                   THEN <<LoadAudio(current_session.novel_id, current_segment,
                                    current_session.voice_id)>>
                   ELSE <<>>
       IN /\ tasks' = ApplyTaskInfos(tasks, infos)
          /\ Sends(Rest(r), <<>>, <<>>, sink)
    /\ error' = "none"
    /\ last' = [Last("InferSubmitted", r.session_id, 0, "") EXCEPT
                  !.old = r.old,
                  !.ready = {r.segment_indices[k] : k \in {j \in DOMAIN states :
                                                             states[j] = "ready"}}]
    /\ UNCHANGED <<view, selected_novel, current_session, segments_len, loaded_range,
                   total_segments, current_segment_index, playback_state,
                   waiting_for_audio, prefetch_ahead, now, next_sid, pushes, intents>>

\* ApiResponse::InferSubmitted: one TaskInfo per submitted index, each in a
\* state the server chooses
InferSubmitted(r, states) ==
    /\ Pending(r)
    /\ r.type = "SubmitInfer"
    /\ LET infos == [k \in DOMAIN r.segment_indices |->
                       TaskInfo(ServerTaskId(r.session_id, r.segment_indices[k]),
                                r.segment_indices[k], states[k])]
           current_segment == current_segment_index
           current_ready == \E k \in DOMAIN infos :
                               /\ infos[k].segment_index = current_segment
                               /\ infos[k].state = "ready"
           load == IF /\ current_ready
                      /\ (waiting_for_audio \/ playback_state = "Loading")
                      /\ HasSession
                   THEN <<LoadAudio(current_session.novel_id, current_segment,
                                    current_session.voice_id)>>
                   ELSE <<>>
       IN /\ tasks' = ApplyTaskInfos(tasks, infos)
          /\ Sends(Rest(r), load, <<>>, sink)
    /\ error' = "none"
    /\ last' = [Last("InferSubmitted", r.session_id, 0, "") EXCEPT
                  !.old = r.old,
                  !.ready = {r.segment_indices[k] : k \in {j \in DOMAIN states :
                                                             states[j] = "ready"}}]
    /\ UNCHANGED <<view, selected_novel, current_session, segments_len, loaded_range,
                   total_segments, current_segment_index, playback_state,
                   waiting_for_audio, prefetch_ahead, now, next_sid, pushes, intents>>

\* ApiResponse::AudioLoaded
AudioLoaded(r) ==
    /\ Pending(r)
    /\ r.type = "LoadAudio"
    /\ IF r.segment_index = current_segment_index
       THEN /\ playback_state' = "Playing"
            /\ waiting_for_audio' = FALSE
       ELSE UNCHANGED <<playback_state, waiting_for_audio>>
    /\ error' = "none"
    /\ Sends(Rest(r), <<>>, <<"Play">>, sink)
    /\ last' = [Last("AudioLoaded", 0, r.segment_index, "") EXCEPT !.old = r.old]
    /\ UNCHANGED <<view, selected_novel, current_session, segments_len, loaded_range,
                   total_segments, current_segment_index, tasks, prefetch_ahead,
                   now, next_sid, pushes, intents>>

\* ApiResponse::AudioNotReady
AudioNotReady(r) ==
    /\ Pending(r)
    /\ r.type = "LoadAudio"
    /\ waiting_for_audio' =
         IF r.segment_index = current_segment_index THEN TRUE ELSE waiting_for_audio
    /\ Sends(Rest(r), <<>>, <<>>, sink)
    /\ last' = [Last("AudioNotReady", 0, r.segment_index, "") EXCEPT !.old = r.old]
    /\ UNCHANGED <<view, selected_novel, current_session, segments_len, loaded_range,
                   total_segments, current_segment_index, playback_state, error,
                   tasks, prefetch_ahead, now, next_sid, pushes, intents>>

\* ApiResponse::SegmentsLoaded: the first page of the novel (every novel of
\* the list fits in one page, so the page starts at segment 0)
SegmentsLoaded(r) ==
    /\ Pending(r)
    /\ r.type = "LoadSegments"
    /\ LET len == NovelTotal[r.novel_id]
           real_total == IF selected_novel # "" THEN NovelTotal[selected_novel] ELSE len
           seg_start == 0
           seg_end == seg_start + len
           is_initial_load == segments_len = 0
           is_jump_load == seg_start > 0 /\ segments_len = 0
           is_append == segments_len # 0 /\ seg_start >= loaded_range.end
           sub == IF (is_initial_load \/ is_jump_load) /\ HasSession
                  THEN submit_prefetch(tasks, prefetch_ahead, current_session.session_id,
                                       current_session.current_index, real_total, now)
                  ELSE [tasks |-> tasks, reqs |-> <<>>]
       IN /\ IF is_initial_load \/ is_jump_load
             THEN /\ segments_len' = len
                  /\ loaded_range' = [start |-> seg_start, end |-> seg_end]
             ELSE IF is_append
                  THEN /\ segments_len' = segments_len + len
                       /\ loaded_range' = [loaded_range EXCEPT
                                             !.end = loaded_range.start + segments_len + len]
                  ELSE UNCHANGED <<segments_len, loaded_range>>
          /\ total_segments' = real_total
          /\ tasks' = sub.tasks
          /\ Sends(Rest(r), sub.reqs, <<>>, sink)
    /\ error' = "none"
    /\ last' = Last("SegmentsLoaded", 0, 0, "")
    /\ UNCHANGED <<view, selected_novel, current_session, current_segment_index,
                   playback_state, waiting_for_audio, prefetch_ahead, now,
                   next_sid, pushes, intents>>

\* an error response that also stops playback
ApiError_Stop(r) ==
    /\ Pending(r)
    /\ error' = "api"
    /\ playback_state' = "Stopped"
    /\ Sends(Rest(r), <<>>, <<>>, sink)
    /\ last' = [Last("ApiError", r.session_id, r.segment_index, r.type) EXCEPT !.old = r.old]
    /\ UNCHANGED <<view, selected_novel, current_session, segments_len, loaded_range,
                   total_segments, current_segment_index,
                   waiting_for_audio, tasks, prefetch_ahead, now, next_sid, pushes, intents>>

\* ApiResponse::Error: any request may fail
ApiError(r) ==
    /\ Pending(r)
    /\ error' = "api"
    /\ Sends(Rest(r), <<>>, <<>>, sink)
    /\ last' = [Last("ApiError", r.session_id, r.segment_index, r.type) EXCEPT !.old = r.old]
    /\ UNCHANGED <<view, selected_novel, current_session, segments_len, loaded_range,
                   total_segments, current_segment_index, playback_state,
                   waiting_for_audio, tasks, prefetch_ahead, now, next_sid, pushes, intents>>


\* -------------------------------------------- systems.rs handle_ws_responses
\* a push handler that drops the push of an index without an entry
WsTaskStateChanged_DropMissing(w, st) ==
    /\ pushes < MaxPush
    /\ pushes' = pushes + 1
    /\ w \in submitted
    /\ LET sid == w.session_id
           idx == w.segment_index
           ws_event == WsEvent(sid, ServerTaskId(sid, idx), idx, st,
                               ServerDuration(st), ServerError(st))
           is_current_session == HasSession /\ current_session.session_id = sid
           current == current_segment_index
           load == IF /\ is_current_session
                      /\ idx = current
                      /\ st = "ready"
                      /\ (waiting_for_audio \/ playback_state = "Loading")
                   THEN <<LoadAudio(current_session.novel_id, current,
                                    current_session.voice_id)>>
                   ELSE <<>>
       IN /\ tasks' = IF HasSession /\ idx \in DOMAIN tasks
                      THEN update_task_state(tasks, current_session.session_id, ws_event, now)
                      ELSE tasks
          /\ Sends(api_tasks, load, <<>>, sink)
    /\ last' = [Last("WsTaskStateChanged", w.session_id, w.segment_index, st) EXCEPT
                  !.old = w.old,
                  !.ready = IF st = "ready" THEN {w.segment_index} ELSE {}]
    /\ UNCHANGED <<view, selected_novel, current_session, segments_len, loaded_range,
                   total_segments, current_segment_index, playback_state,
                   waiting_for_audio, error, prefetch_ahead, now, next_sid, intents>>

\* WsResponse::TaskStateChanged: the server pushes a state of a segment w it
\* was asked to synthesize
WsTaskStateChanged(w, st) ==
    /\ pushes < MaxPush
    /\ pushes' = pushes + 1
    /\ w \in submitted
    /\ LET sid == w.session_id
           idx == w.segment_index
           ws_event == WsEvent(sid, ServerTaskId(sid, idx), idx, st,
                               ServerDuration(st), ServerError(st))
           is_current_session == HasSession /\ current_session.session_id = sid
           current == current_segment_index
           load == IF /\ is_current_session
                      /\ idx = current
                      /\ st = "ready"
                      /\ (waiting_for_audio \/ playback_state = "Loading")
                   THEN <<LoadAudio(current_session.novel_id, current,
                                    current_session.voice_id)>>
                   ELSE <<>>
       IN /\ tasks' = IF HasSession
                      THEN update_task_state(tasks, current_session.session_id, ws_event, now)
                      ELSE tasks
          /\ Sends(api_tasks, load, <<>>, sink)
    /\ last' = [Last("WsTaskStateChanged", w.session_id, w.segment_index, st) EXCEPT
                  !.old = w.old,
                  !.ready = IF st = "ready" THEN {w.segment_index} ELSE {}]
    /\ UNCHANGED <<view, selected_novel, current_session, segments_len, loaded_range,
                   total_segments, current_segment_index, playback_state,
                   waiting_for_audio, error, prefetch_ahead, now, next_sid, intents>>

\* a closed notification applied whatever session it names
WsSessionClosedByServer_AnySession(sid) ==
    /\ sid \in 1..(next_sid - 1)
    /\ IF HasSession
       THEN /\ current_session' = NoSession
            /\ playback_state' = "Stopped"
            /\ tasks' = clear(tasks)
            /\ error' = "closed"
            /\ Sends(MarkOld(api_tasks, "LoadAudio"), <<>>, <<>>, sink)
       ELSE /\ Sends(api_tasks, <<>>, <<>>, sink)
            /\ UNCHANGED <<current_session, playback_state, tasks, error>>
    /\ last' = Last("WsSessionClosedByServer", sid, 0, "")
    /\ UNCHANGED <<view, selected_novel, segments_len, loaded_range, total_segments,
                   current_segment_index, waiting_for_audio, prefetch_ahead, now,
                   next_sid, pushes, intents>>

\* WsResponse::SessionClosedByServer
WsSessionClosedByServer(sid) ==
    /\ sid \in 1..(next_sid - 1)
    /\ IF HasSession /\ current_session.session_id = sid
       THEN /\ current_session' = NoSession
            /\ playback_state' = "Stopped"
            /\ tasks' = clear(tasks)
            /\ error' = "closed"
            /\ Sends(MarkOld(api_tasks, "LoadAudio"), <<>>, <<>>, sink)
       ELSE /\ Sends(api_tasks, <<>>, <<>>, sink)
            /\ UNCHANGED <<current_session, playback_state, tasks, error>>
    /\ last' = Last("WsSessionClosedByServer", sid, 0, "")
    /\ UNCHANGED <<view, selected_novel, segments_len, loaded_range, total_segments,
                   current_segment_index, waiting_for_audio, prefetch_ahead, now,
                   next_sid, pushes, intents>>

\* ---------------------------------- audio.rs / systems.rs the finished signal
\* a finished handler that moves the engine's index and not the session's
AudioFinished_OneCursor ==
    /\ sink = "playing"
    /\ IF playback_state # "Playing" \/ ~HasSession
       THEN /\ Sends(api_tasks, <<>>, <<>>, "none")
            /\ UNCHANGED <<current_session, current_segment_index, playback_state,
                           waiting_for_audio, tasks>>
       ELSE LET total == total_segments
                current == current_segment_index
            IN IF current + 1 >= total
               THEN /\ playback_state' = "Stopped"
                    /\ Sends(api_tasks, <<>>, <<>>, "none")
                    /\ UNCHANGED <<current_session, current_segment_index,
                                   waiting_for_audio, tasks>>
               ELSE LET next_index == current + 1
                        ready == is_segment_ready(tasks, next_index)
                        load == IF ready
                                THEN <<LoadAudio(current_session.novel_id, next_index,
                                                 current_session.voice_id)>>
                                ELSE <<>>
                        sub == submit_prefetch(tasks, prefetch_ahead,
                                               current_session.session_id,
                                               next_index, total, now)
                    IN /\ current_segment_index' = next_index
                       /\ current_session' = current_session
                       /\ playback_state' = IF ready THEN playback_state ELSE "Loading"
                       /\ waiting_for_audio' = IF ready THEN waiting_for_audio ELSE TRUE
                       /\ tasks' = sub.tasks
                       /\ Sends(api_tasks, load \o sub.reqs, <<>>, "none")
    /\ last' = Last("AudioFinished", 0, current_segment_index, playback_state)
    /\ UNCHANGED <<view, selected_novel, segments_len, loaded_range, total_segments,
                   error, prefetch_ahead, now, next_sid, pushes, intents>>

\* a finished handler without the test of the playback state
AudioFinished_AnyState ==
    /\ sink = "playing"
    /\ IF ~HasSession
       THEN /\ Sends(api_tasks, <<>>, <<>>, "none")
            /\ UNCHANGED <<current_session, current_segment_index, playback_state,
                           waiting_for_audio, tasks>>
       ELSE LET total == total_segments
                current == current_segment_index
            IN IF current + 1 >= total
               THEN /\ playback_state' = "Stopped"
                    /\ Sends(api_tasks, <<>>, <<>>, "none")
                    /\ UNCHANGED <<current_session, current_segment_index,
                                   waiting_for_audio, tasks>>
               ELSE LET next_index == current + 1
                        ready == is_segment_ready(tasks, next_index)
                        load == IF ready
                                THEN <<LoadAudio(current_session.novel_id, next_index,
                                                 current_session.voice_id)>>
                                ELSE <<>>
                        sub == submit_prefetch(tasks, prefetch_ahead,
                                               current_session.session_id,
                                               next_index, total, now)
                    IN /\ current_segment_index' = next_index
                       /\ current_session' = [current_session EXCEPT
                                                !.current_index = next_index]
                       /\ playback_state' = IF ready THEN playback_state ELSE "Loading"
                       /\ waiting_for_audio' = IF ready THEN waiting_for_audio ELSE TRUE
                       /\ tasks' = sub.tasks
                       /\ Sends(api_tasks, load \o sub.reqs, <<>>, "none")
    /\ last' = Last("AudioFinished", 0, current_segment_index, playback_state)
    /\ UNCHANGED <<view, selected_novel, segments_len, loaded_range, total_segments,
                   error, prefetch_ahead, now, next_sid, pushes, intents>>

\* a finished handler without the test for the last segment
AudioFinished_NoEnd ==
    /\ sink = "playing"
    /\ IF playback_state # "Playing" \/ ~HasSession
       THEN /\ Sends(api_tasks, <<>>, <<>>, "none")
            /\ UNCHANGED <<current_session, current_segment_index, playback_state,
                           waiting_for_audio, tasks>>
       ELSE LET total == total_segments
                current == current_segment_index
            IN IF FALSE
               THEN /\ playback_state' = "Stopped"
                    /\ Sends(api_tasks, <<>>, <<>>, "none")
                    /\ UNCHANGED <<current_session, current_segment_index,
                                   waiting_for_audio, tasks>>
               ELSE LET next_index == current + 1
                        ready == is_segment_ready(tasks, next_index)
                        load == IF ready
                                THEN <<LoadAudio(current_session.novel_id, next_index,
                                                 current_session.voice_id)>>
                                ELSE <<>>
                        sub == submit_prefetch(tasks, prefetch_ahead,
                                               current_session.session_id,
                                               next_index, total, now)
                    IN /\ current_segment_index' = next_index
                       /\ current_session' = [current_session EXCEPT
                                                !.current_index = next_index]
                       /\ playback_state' = IF ready THEN playback_state ELSE "Loading"
                       /\ waiting_for_audio' = IF ready THEN waiting_for_audio ELSE TRUE
                       /\ tasks' = sub.tasks
                       /\ Sends(api_tasks, load \o sub.reqs, <<>>, "none")
    /\ last' = Last("AudioFinished", 0, current_segment_index, playback_state)
    /\ UNCHANGED <<view, selected_novel, segments_len, loaded_range, total_segments,
                   error, prefetch_ahead, now, next_sid, pushes, intents>>

\* the sink runs empty (audio_thread reports Finished and drops the sink),
\* check_audio_finished sends AudioFinishedEvent, handle_audio_finished runs
AudioFinished ==
    /\ sink = "playing"
    /\ IF playback_state # "Playing" \/ ~HasSession
       THEN /\ Sends(api_tasks, <<>>, <<>>, "none")
            /\ UNCHANGED <<current_session, current_segment_index, playback_state,
                           waiting_for_audio, tasks>>
       ELSE LET total == total_segments
                current == current_segment_index
            IN IF current + 1 >= total
               THEN /\ playback_state' = "Stopped"
                    /\ Sends(api_tasks, <<>>, <<>>, "none")
                    /\ UNCHANGED <<current_session, current_segment_index,
                                   waiting_for_audio, tasks>>
               ELSE LET next_index == current + 1
                        ready == is_segment_ready(tasks, next_index)
                        load == IF ready
                                THEN <<LoadAudio(current_session.novel_id, next_index,
                                                 current_session.voice_id)>>
                                ELSE <<>>
                        sub == submit_prefetch(tasks, prefetch_ahead,
                                               current_session.session_id,
                                               next_index, total, now)
                    IN /\ current_segment_index' = next_index
                       /\ current_session' = [current_session EXCEPT
                                                !.current_index = next_index]
                       /\ playback_state' = IF ready THEN playback_state ELSE "Loading"
                       /\ waiting_for_audio' = IF ready THEN waiting_for_audio ELSE TRUE
                       /\ tasks' = sub.tasks
                       /\ Sends(api_tasks, load \o sub.reqs, <<>>, "none")
    /\ last' = Last("AudioFinished", 0, current_segment_index, playback_state)
    /\ UNCHANGED <<view, selected_novel, segments_len, loaded_range, total_segments,
                   error, prefetch_ahead, now, next_sid, pushes, intents>>

\* ------------------------------------------------ systems.rs periodic systems
\* a periodic resubmit that sends the request without inserting the entries
PrefetchTick_NoInsert ==
    /\ playback_state \in {"Playing", "Loading"}
    /\ HasSession
    /\ LET sub == submit_prefetch_NoInsert(tasks, prefetch_ahead,
                                           current_session.session_id,
                                           current_session.current_index,
                                           total_segments, now)
       IN /\ sub.reqs # <<>>
          /\ tasks' = sub.tasks
          /\ Sends(api_tasks, sub.reqs, <<>>, sink)
    /\ last' = Last("PrefetchTick", current_session.session_id,
                    current_session.current_index, "")
    /\ UNCHANGED <<view, selected_novel, current_session, segments_len, loaded_range,
                   total_segments, current_segment_index, playback_state,
                   waiting_for_audio, error, prefetch_ahead, now, next_sid, pushes, intents>>

\* prefetch_tasks_system when its one-second timer fires (a firing that finds
\* nothing to submit changes nothing and is a stuttering step)
PrefetchTick ==
    /\ playback_state \in {"Playing", "Loading"}
    /\ HasSession
    /\ LET sub == submit_prefetch(tasks, prefetch_ahead, current_session.session_id,
                                  current_session.current_index, total_segments, now)
       IN /\ sub.reqs # <<>>
          /\ tasks' = sub.tasks
          /\ Sends(api_tasks, sub.reqs, <<>>, sink)
    /\ last' = Last("PrefetchTick", current_session.session_id,
                    current_session.current_index, "")
    /\ UNCHANGED <<view, selected_novel, current_session, segments_len, loaded_range,
                   total_segments, current_segment_index, playback_state,
                   waiting_for_audio, error, prefetch_ahead, now, next_sid, pushes, intents>>

\* cleanup_stale_tasks_system when its five-second timer fires (a firing that
\* finds nothing stale changes nothing and is a stuttering step)
CleanupTick ==
    /\ tasks' = cleanup_stale_pending(tasks, PendingTimeout, now)
    /\ tasks' # tasks
    /\ Sends(api_tasks, <<>>, <<>>, sink)
    /\ last' = [Last("CleanupTick", 0, 0, "") EXCEPT
                   !.purged = @ \cup (DOMAIN tasks \ DOMAIN tasks')]
    /\ UNCHANGED <<view, selected_novel, current_session, segments_len, loaded_range,
                   total_segments, current_segment_index, playback_state,
                   waiting_for_audio, error, prefetch_ahead, now, next_sid, pushes, intents>>

\* clear_error_timer when its three seconds have elapsed
ClearErrorTimer ==
    /\ error # "none"
    /\ error' = "none"
    /\ Sends(api_tasks, <<>>, <<>>, sink)
    /\ last' = Last("ClearErrorTimer", 0, 0, "")
    /\ UNCHANGED <<view, selected_novel, current_session, segments_len, loaded_range,
                   total_segments, current_segment_index, playback_state,
                   waiting_for_audio, tasks, prefetch_ahead, now, next_sid, pushes, intents>>

\* time passes
Tick(dt) ==
    /\ now + dt <= MaxNow
    /\ now' = now + dt
    /\ Sends(api_tasks, <<>>, <<>>, sink)
    /\ last' = Last("Tick", 0, 0, "")
    /\ UNCHANGED <<view, selected_novel, current_session, segments_len, loaded_range,
                   total_segments, current_segment_index, playback_state,
                   waiting_for_audio, error, tasks, prefetch_ahead, next_sid, pushes, intents>>

\* ------------------------------------------------- audio.rs, channel by channel
\* The application specifications above keep the audio thread as the one value
\* sink; SpecAudio below follows AudioPlayer and audio_thread through their two
\* channels, driven by any sequence of play, stop, pause and resume calls.

\* handle_play_audio -> AudioPlayer::play: both flags reset, then Play is sent
play(ok) ==
    /\ Len(finished_events) < MaxBuffers
    /\ Len(command_tx) < MaxQueue
    /\ current_status' = Status("Idle", 0)
    /\ has_notified_finished' = FALSE
    /\ command_tx' = Append(command_tx,
                            AudioCommand("Play", Len(finished_events) + 1, ok))
    /\ finished_events' = Append(finished_events, 0)
    /\ finished_tagged' = Append(finished_tagged, 0)
    /\ last' = Last("play", 0, 0, "")
    /\ UNCHANGED <<status_rx, current_sink>>
    /\ UNCHANGED app_vars

\* handle_stop_audio, handle_pause_audio, handle_resume_audio ->
\* AudioPlayer::stop, pause, resume: the command is sent, nothing else
send_command(cmd) ==
    /\ Len(command_tx) < MaxQueue
    /\ command_tx' = Append(command_tx, AudioCommand(cmd, 0, FALSE))
    /\ last' = Last(cmd, 0, 0, "")
    /\ UNCHANGED <<status_rx, current_status, has_notified_finished, current_sink,
                   finished_tagged, finished_events>>
    /\ UNCHANGED app_vars

\* AudioPlayer::poll_status: the status channel is drained and the last
\* status received stays in current_status
poll_status ==
    IF status_rx = <<>> THEN current_status ELSE status_rx[Len(status_rx)]

\* a finished check that sends the event at every poll that reads Finished
check_audio_finished_NoDedup ==
    LET status == poll_status
    IN /\ status_rx' = <<>>
       /\ current_status' = status
       /\ IF status.status = "Finished"
          THEN /\ has_notified_finished' = TRUE
               /\ finished_tagged' = [finished_tagged EXCEPT ![status.buf] = @ + 1]
               /\ finished_events' =
                      [finished_events EXCEPT ![Len(finished_events)] = @ + 1]
          ELSE UNCHANGED <<has_notified_finished, finished_tagged, finished_events>>
       /\ last' = Last("check_audio_finished", 0, 0, "")
       /\ UNCHANGED <<command_tx, current_sink>>
       /\ UNCHANGED app_vars

\* check_audio_finished, once a frame: AudioFinishedEvent is sent when the
\* polled status is Finished and has_notified_finished is not yet set
check_audio_finished ==
    LET status == poll_status
    IN /\ status_rx' = <<>>
       /\ current_status' = status
       /\ IF status.status = "Finished" /\ ~has_notified_finished
          THEN /\ has_notified_finished' = TRUE
               /\ finished_tagged' = [finished_tagged EXCEPT ![status.buf] = @ + 1]
               /\ finished_events' =
                      [finished_events EXCEPT ![Len(finished_events)] = @ + 1]
          ELSE UNCHANGED <<has_notified_finished, finished_tagged, finished_events>>
       /\ last' = Last("check_audio_finished", 0, 0, "")
       /\ UNCHANGED <<command_tx, current_sink>>
       /\ UNCHANGED app_vars

\* the command part of one iteration of the audio thread's loop: the sink
\* after command c and the statuses sent for it
on_command(s, c) ==
    CASE c.cmd = "Play" ->
           IF c.ok THEN [sink |-> Sink(c.buf), sent |-> <<Status("Playing", c.buf)>>]
           ELSE [sink |-> NoSink, sent |-> <<>>]
      [] c.cmd = "Stop" -> [sink |-> NoSink, sent |-> <<Status("Idle", 0)>>]
      [] c.cmd = "Pause" ->
           IF s # NoSink
           THEN [sink |-> [s EXCEPT !.paused = TRUE],
                 sent |-> <<Status("Paused", s.buf)>>]
           ELSE [sink |-> s, sent |-> <<>>]
      [] c.cmd = "Resume" ->
           IF s # NoSink
           THEN [sink |-> [s EXCEPT !.paused = FALSE],
                 sent |-> <<Status("Playing", s.buf)>>]
           ELSE [sink |-> s, sent |-> <<>>]

\* one iteration of the audio thread's loop: try_recv of at most one command,
\* then the finished check on the sink
audio_thread_loop ==
    LET got == IF command_tx = <<>> THEN [sink |-> current_sink, sent |-> <<>>]
               ELSE on_command(current_sink, Head(command_tx))
        done == got.sink # NoSink /\ got.sink.empty
    IN /\ command_tx' = IF command_tx = <<>> THEN command_tx ELSE Tail(command_tx)
       /\ status_rx' = status_rx \o got.sent \o
                       (IF done THEN <<Status("Finished", got.sink.buf)>> ELSE <<>>)
       /\ Len(status_rx') <= MaxQueue
       /\ current_sink' = IF done THEN NoSink ELSE got.sink
       /\ last' = Last("audio_thread", 0, 0, "")
       /\ UNCHANGED <<current_status, has_notified_finished, finished_tagged,
                      finished_events>>
       /\ UNCHANGED app_vars

\* the sink's source plays to its end: sink.empty() turns true
SourceEnds ==
    /\ current_sink # NoSink
    /\ ~current_sink.paused
    /\ ~current_sink.empty
    /\ current_sink' = [current_sink EXCEPT !.empty = TRUE]
    /\ last' = Last("SourceEnds", 0, 0, "")
    /\ UNCHANGED <<command_tx, status_rx, current_status, has_notified_finished,
                   finished_tagged, finished_events>>
    /\ UNCHANGED app_vars

\* ----------------------------------------------- state.rs, TaskManager alone
\* SpecTaskManager calls the methods of one TaskManager in any order with
\* arguments of small sets, the clock advancing between calls.

\* the segment indices the calls insert and update
TmKeys == {0, 1, 4}

\* the cursors and totals calculate_prefetch_range is called with
TmCursors == 0..5
TmTotals == 0..5

\* the index slices add_pending_tasks is called with: ascending as
\* calculate_prefetch_range returns them, or one index twice
TmSlices ==
    {<<>>} \cup {<<i>> : i \in TmKeys}
           \cup UNION {{<<i, j>> : j \in {k \in TmKeys : k >= i}} : i \in TmKeys}

\* what the calls on the task manager leave alone
tm_frame == <<view, selected_novel, current_session, segments_len, loaded_range,
              total_segments, current_segment_index, playback_state,
              waiting_for_audio, error, api_tasks, sink, next_sid, pushes, intents,
              submitted, emitted, emitted_audio, player_vars>>

\* the record of a call: its arguments and the value it returned
TmCall(op, session_id, indices, current_index, total, ret) ==
    [op |-> op, session_id |-> session_id, indices |-> indices,
     current_index |-> current_index, total_segments |-> total, ret |-> ret]

\* TaskManager::new
TmNew(ahead) ==
    /\ tasks' = EmptyTasks
    /\ prefetch_ahead' = ahead
    /\ calls' = 0
    /\ last' = TmCall("new", 0, <<>>, 0, 0, <<>>)
    /\ UNCHANGED now
    /\ UNCHANGED tm_frame

\* a range computation that also inserts what it returns
TmCalculate_Insert(current_index, total) ==
    /\ tasks' = add_pending_tasks(tasks, 0,
                    calculate_prefetch_range(tasks, prefetch_ahead, current_index, total),
                    now)
    /\ last' = TmCall("calculate_prefetch_range", 0, <<>>, current_index, total,
                      calculate_prefetch_range(tasks, prefetch_ahead, current_index, total))
    /\ UNCHANGED <<prefetch_ahead, now, calls>>
    /\ UNCHANGED tm_frame

\* a call of calculate_prefetch_range
TmCalculate(current_index, total) ==
    /\ last' = TmCall("calculate_prefetch_range", 0, <<>>, current_index, total,
                      calculate_prefetch_range(tasks, prefetch_ahead,
                                               current_index, total))
    /\ UNCHANGED <<tasks, prefetch_ahead, now, calls>>
    /\ UNCHANGED tm_frame

\* a call of add_pending_tasks
TmAddPending(session_id, indices) ==
    /\ calls < MaxCalls
    /\ calls' = calls + 1
    /\ tasks' = add_pending_tasks(tasks, session_id, indices, now)
    /\ last' = TmCall("add_pending_tasks", session_id, indices, 0, 0, <<>>)
    /\ UNCHANGED <<prefetch_ahead, now>>
    /\ UNCHANGED tm_frame

\* a call of update_task_state with an event of the current session
TmUpdate(idx, st) ==
    /\ calls < MaxCalls
    /\ calls' = calls + 1
    /\ tasks' = update_task_state(tasks, 1,
                    WsEvent(1, ServerTaskId(1, idx), idx, st, ServerDuration(st),
                            ServerError(st)), now)
    /\ last' = TmCall("update_task_state", 1, <<idx>>, 0, 0, <<>>)
    /\ UNCHANGED <<prefetch_ahead, now>>
    /\ UNCHANGED tm_frame

\* a call of cleanup_stale_pending; removed is a history field
TmCleanup(timeout_secs) ==
    /\ tasks' = cleanup_stale_pending(tasks, timeout_secs, now)
    /\ last' = [timeout_secs |-> timeout_secs,
                removed |-> DOMAIN tasks \ DOMAIN tasks'] @@
               TmCall("cleanup_stale_pending", 0, <<>>, 0, 0, <<>>)
    /\ UNCHANGED <<prefetch_ahead, now, calls>>
    /\ UNCHANGED tm_frame

\* time passes between two calls
TmTick(dt) ==
    /\ now + dt <= MaxNow
    /\ now' = now + dt
    /\ last' = TmCall("tick", 0, <<>>, 0, 0, <<>>)
    /\ UNCHANGED <<tasks, prefetch_ahead, calls>>
    /\ UNCHANGED tm_frame

\* ------------------------------------------------------------ specification
Indices == 0..(NovelTotal["long"] - 1)

Next ==
    \/ UiPlayNovel("short")
    \/ UiBack
    \/ UiReturnToList
    \/ \E v \in Voices : UiChangeVoice(v)
    \/ \E i \in Indices : UiSeekStep(i)
    \/ \E i \in Indices : UiSeekSlider(i)
    \/ \E i \in Indices : UiSeekClick(i)
    \/ UiPlayButton
    \/ UiStop
    \/ UiPause
    \/ UiResume
    \/ \E r \in DOMAIN api_tasks : PlayStarted(r)
    \/ \E r \in DOMAIN api_tasks : SeekCompleted(r)
    \/ \E r \in DOMAIN api_tasks : VoiceChanged(r)
    \/ \E r \in DOMAIN api_tasks : SessionClosed(r)
    \/ \E r \in DOMAIN api_tasks :
         \E states \in [DOMAIN r.segment_indices -> AckStates] : InferSubmitted(r, states)
    \/ \E r \in DOMAIN api_tasks : AudioLoaded(r)
    \/ \E r \in DOMAIN api_tasks : AudioNotReady(r)
    \/ \E r \in DOMAIN api_tasks : SegmentsLoaded(r)
    \/ \E r \in DOMAIN api_tasks : ApiError(r)
    \/ \E w \in submitted, st \in WsStates : WsTaskStateChanged(w, st)
    \/ \E sid \in 1..MaxSessions : WsSessionClosedByServer(sid)
    \/ AudioFinished
    \/ PrefetchTick
    \/ ClearErrorTimer

\* the engine playing the short novel, within the staleness timeout
Spec == Init /\ [][Next]_vars

\* the long novel played from its start with no further user intent, while
\* time passes
NextLong ==
    \/ UiPlayNovel("long")
    \/ \E r \in DOMAIN api_tasks : PlayStarted(r)
    \/ \E r \in DOMAIN api_tasks :
         \E states \in [DOMAIN r.segment_indices -> AckStates] : InferSubmitted(r, states)
    \/ \E r \in DOMAIN api_tasks : AudioLoaded(r)
    \/ \E r \in DOMAIN api_tasks : AudioNotReady(r)
    \/ \E r \in DOMAIN api_tasks : SegmentsLoaded(r)
    \/ \E w \in submitted, st \in WsStates : WsTaskStateChanged(w, st)
    \/ AudioFinished
    \/ PrefetchTick
    \/ CleanupTick
    \/ \E dt \in TickSteps : Tick(dt)

SpecLong == Init /\ [][NextLong]_vars

\* the long novel without task-state pushes: the answers to a submission are
\* its acknowledgement or nothing but the timeout
NextStale ==
    \/ UiPlayNovel("long")
    \/ \E r \in DOMAIN api_tasks : PlayStarted(r)
    \/ \E r \in DOMAIN api_tasks :
         \E states \in [DOMAIN r.segment_indices -> AckStates] : InferSubmitted(r, states)
    \/ \E r \in DOMAIN api_tasks : AudioLoaded(r)
    \/ \E r \in DOMAIN api_tasks : AudioNotReady(r)
    \/ \E r \in DOMAIN api_tasks : SegmentsLoaded(r)
    \/ AudioFinished
    \/ PrefetchTick
    \/ CleanupTick
    \/ \E dt \in TickSteps : Tick(dt)

\* every response in flight is eventually handled
RespondStale ==
    \/ \E r \in DOMAIN api_tasks : PlayStarted(r)
    \/ \E r \in DOMAIN api_tasks :
         \E states \in [DOMAIN r.segment_indices -> AckStates] : InferSubmitted(r, states)
    \/ \E r \in DOMAIN api_tasks : AudioLoaded(r)
    \/ \E r \in DOMAIN api_tasks : AudioNotReady(r)
    \/ \E r \in DOMAIN api_tasks : SegmentsLoaded(r)

\* the one-second timer of prefetch_tasks_system fires again and again and
\* every response arrives
SpecStale ==
    Init /\ [][NextStale]_vars /\ WF_vars(RespondStale) /\ WF_vars(PrefetchTick)

\* sessions played one after the other: play, close, stop and the play
\* button, no seek, no voice change and no push
NextPlay ==
    \/ UiPlayNovel("short")
    \/ UiBack
    \/ UiReturnToList
    \/ UiPlayButton
    \/ UiStop
    \/ \E r \in DOMAIN api_tasks : PlayStarted(r)
    \/ \E r \in DOMAIN api_tasks : SessionClosed(r)
    \/ \E r \in DOMAIN api_tasks :
         \E states \in [DOMAIN r.segment_indices -> AckStates] : InferSubmitted(r, states)
    \/ \E r \in DOMAIN api_tasks : AudioLoaded(r)
    \/ \E r \in DOMAIN api_tasks : AudioNotReady(r)
    \/ \E r \in DOMAIN api_tasks : SegmentsLoaded(r)
    \/ \E r \in DOMAIN api_tasks : ApiError(r)
    \/ \E sid \in 1..MaxSessions : WsSessionClosedByServer(sid)
    \/ AudioFinished
    \/ PrefetchTick
    \/ ClearErrorTimer

\* poll_api_tasks: the response of some in-flight request is handled
Respond ==
    \E r \in DOMAIN api_tasks :
       \/ PlayStarted(r)
       \/ SessionClosed(r)
       \/ \E states \in [DOMAIN r.segment_indices -> AckStates] : InferSubmitted(r, states)
       \/ AudioLoaded(r)
       \/ AudioNotReady(r)
       \/ SegmentsLoaded(r)
       \/ ApiError(r)

\* the sessions with the engine's schedule: every request is answered and the
\* prefetch timer keeps firing
SpecPlay ==
    Init /\ [][NextPlay]_vars /\ WF_vars(Respond) /\ WF_vars(PrefetchTick)

\* the audio player alone: the frame systems of audio.rs in any order, the
\* audio thread and its sink
NextAudio ==
    \/ \E ok \in BOOLEAN : play(ok)
    \/ \E cmd \in {"Stop", "Pause", "Resume"} : send_command(cmd)
    \/ check_audio_finished
    \/ audio_thread_loop
    \/ SourceEnds

SpecAudio == Init /\ [][NextAudio]_vars

\* one task manager called in any order
NextTaskManager ==
    \/ \E ahead \in {PrefetchAhead} : TmNew(ahead)
    \/ \E c \in TmCursors, t \in TmTotals : TmCalculate(c, t)
    \/ \E sid \in 1..MaxSessions, indices \in TmSlices : TmAddPending(sid, indices)
    \/ \E idx \in TmKeys, st \in WsStates : TmUpdate(idx, st)
    \/ TmCleanup(PendingTimeout)
    \/ \E dt \in TickSteps : TmTick(dt)

SpecTaskManager == Init /\ [][NextTaskManager]_vars

\* ------------------------------------------------------------------ claims
\* the requests of a type among those a step sent
Sent(reqs, type) == {k \in DOMAIN reqs : reqs[k].type = type}

\* C1: a task-state push whose session id is not the active session's id (or
\* that arrives while no session is active) leaves the task table unchanged
\* and sends no audio-fetch request.
C1_StalePushDiscarded ==
    [][(last'.op = "WsTaskStateChanged" /\ last'.sid # current_session.session_id)
         => (tasks' = tasks /\ Sent(emitted', "LoadAudio") = {})]_vars

\* a "ready" push of an earlier session for the cursor segment has been handled
\* while another session was Loading
C1_Witness ==
    /\ last.op = "WsTaskStateChanged"
    /\ last.pre_sid # 0
    /\ last.sid # last.pre_sid
    /\ last.idx = current_segment_index
    /\ last.arg = "ready"
    /\ playback_state = "Loading"
    /\ current_session.session_id = last.pre_sid

\* the prefetch window of a cursor: [cursor, min(cursor + ahead + 1, total))
Window(cursor) == cursor..(Min(cursor + PrefetchAhead + 1, total_segments) - 1)

\* the set of the elements of a sequence
Range(seq) == {seq[k] : k \in DOMAIN seq}

\* the table a step computes its submission on: a seek or voice-change
\* acknowledgement that is applied clears the table first
TableWhenBuilt ==
    IF last'.op \in {"SeekCompleted", "VoiceChanged"} THEN clear(tasks) ELSE tasks

\* C2: every inference submission contains only indices that had no entry in
\* the table it was computed on, and each submitted index has a Pending entry
\* when the submission is sent; so an index whose entry stays in the table is
\* never submitted again.
C2_SubmitOnlyMissing ==
    [][\A k \in Sent(emitted', "SubmitInfer") :
         \A idx \in Range(emitted'[k].segment_indices) :
            /\ idx \notin DOMAIN TableWhenBuilt
            /\ idx \in DOMAIN tasks'
            /\ tasks'[idx].state = "Pending"]_vars

\* a submission that left out a window index because it already had an entry
C2_Witness ==
    \E k \in Sent(emitted, "SubmitInfer") :
       /\ Range(emitted[k].segment_indices) # {}
       /\ Range(emitted[k].segment_indices) # Window(current_segment_index)
       /\ Range(emitted[k].segment_indices) \subseteq Window(current_segment_index)
       /\ Window(current_segment_index) \subseteq DOMAIN tasks

\* C3: after the table was cleared by a seek, voice-change or close
\* acknowledgement, an acknowledgement or a push that reports work submitted
\* before the clear changes no table entry and sends no audio-fetch request.
C3_StaleReportIgnored ==
    [][(last'.op \in {"InferSubmitted", "WsTaskStateChanged"} /\ last'.old)
         => (tasks' = tasks /\ Sent(emitted', "LoadAudio") = {})]_vars

\* C4: the response of an audio fetch that was sent before the session was
\* closed, replaced by a new play or had its voice changed hands no audio to
\* the audio player and does not move playback to Playing.
C4_StaleAudioIgnored ==
    [][(last'.op = "AudioLoaded" /\ last'.old)
         => /\ emitted_audio' = <<>>
            /\ (playback_state' = "Playing" => playback_state = "Playing")]_vars

\* C5: every entry of the task table carries the active session's id, and the
\* table is empty whenever no session is active.
C5_EntriesOfActiveSession ==
    /\ \A i \in DOMAIN tasks : tasks[i].session_id = current_session.session_id
    /\ (~HasSession => tasks = EmptyTasks)

\* the table holds entries of a session that followed an earlier one
C5_Witness ==
    /\ current_session.session_id > 1
    /\ DOMAIN tasks # {}

\* C6: a seek acknowledgement of the active session sets the cursor to the
\* acknowledged index, moves playback to Loading and leaves in the table
\* exactly the window of the new cursor, every entry Pending with an empty
\* task id; a seek acknowledgement naming another session changes none of them.
C6_SeekAck ==
    [][last'.op = "SeekCompleted" =>
         IF HasSession /\ last'.sid = current_session.session_id
         THEN /\ current_segment_index' = last'.idx
              /\ current_session'.current_index = last'.idx
              /\ playback_state' = "Loading"
              /\ DOMAIN tasks' = Window(last'.idx)
              /\ \A i \in DOMAIN tasks' :
                    tasks'[i].state = "Pending" /\ tasks'[i].task_id = 0
         ELSE UNCHANGED <<current_session, current_segment_index,
                          playback_state, tasks>>]_vars

\* a seek acknowledgement of the active session moved the cursor forward and
\* left the window of the new cursor
C6_Witness ==
    /\ last.op = "SeekCompleted"
    /\ last.pre_sid # 0
    /\ last.sid = last.pre_sid
    /\ last.idx > 0
    /\ current_segment_index = last.idx
    /\ DOMAIN tasks = Window(last.idx)
    /\ DOMAIN tasks # {}

\* C7: a voice-change acknowledgement of the active session sets the
\* session's voice to the acknowledged one, leaves the cursor, moves playback
\* to Loading and leaves in the table exactly the window of the cursor, every
\* entry Pending, all of them submitted in one request.
C7_VoiceAck ==
    [][(last'.op = "VoiceChanged" /\ HasSession
          /\ last'.sid = current_session.session_id) =>
         /\ current_session'.voice_id = last'.idx
         /\ current_session'.current_index = current_session.current_index
         /\ current_segment_index' = current_segment_index
         /\ playback_state' = "Loading"
         /\ DOMAIN tasks' = Window(current_segment_index)
         /\ \A i \in DOMAIN tasks' : tasks'[i].state = "Pending"
         /\ Len(emitted') = 1
         /\ emitted'[1].type = "SubmitInfer"
         /\ emitted'[1].session_id = current_session.session_id
         /\ Range(emitted'[1].segment_indices) = Window(current_segment_index)]_vars

\* a voice-change acknowledgement of the active session has been applied
C7_Witness ==
    /\ last.op = "VoiceChanged"
    /\ last.pre_sid # 0
    /\ last.sid = last.pre_sid
    /\ current_session.voice_id = last.idx
    /\ current_session.voice_id # DefaultVoice
    /\ Sent(emitted, "SubmitInfer") # {}

\* C9: after a close acknowledgement, or after a session-closed notification
\* of the server for the active session, no session is active, the table is
\* empty and playback is Stopped.
C9_Closed ==
    (\/ last.op = "SessionClosed"
     \/ /\ last.op = "WsSessionClosedByServer"
        /\ last.pre_sid # 0
        /\ last.sid = last.pre_sid)
      => /\ current_session = NoSession
         /\ tasks = EmptyTasks
         /\ playback_state = "Stopped"

\* the server closed the session that was active, which had left Stopped
C9_Witness ==
    /\ last.op = "WsSessionClosedByServer"
    /\ last.pre_sid # 0
    /\ last.sid = last.pre_sid
    /\ ~HasSession
    /\ tasks = EmptyTasks
    /\ playback_state = "Stopped"
    /\ sink = "playing"

\* C10: when a push or an acknowledgement of the active session reports the
\* cursor segment ready while playback is Loading or a fetch is awaited, the
\* same step sends one audio-fetch request for the cursor segment with the
\* session's novel and voice; a report that does not name the cursor segment
\* ready sends no audio-fetch request.
C10_ReadyCursorFetch ==
    [][last'.op \in {"InferSubmitted", "WsTaskStateChanged"} =>
         IF /\ HasSession
            /\ last'.sid = current_session.session_id
            /\ current_segment_index \in last'.ready
            /\ (playback_state = "Loading" \/ waiting_for_audio)
         THEN emitted' = <<LoadAudio(current_session.novel_id, current_segment_index,
                                     current_session.voice_id)>>
         ELSE (current_segment_index \notin last'.ready
                 => Sent(emitted', "LoadAudio") = {})]_vars

\* an acknowledgement of the active session's current submission reported the
\* cursor segment ready while Loading, and the fetch was sent
C10_Witness ==
    /\ last.op = "InferSubmitted"
    /\ ~last.old
    /\ last.pre_sid # 0
    /\ last.sid = last.pre_sid
    /\ current_segment_index \in last.ready
    /\ playback_state = "Loading"
    /\ Sent(emitted, "LoadAudio") # {}

\* the server has been asked for the whole window at the start index for sid
WindowSubmitted(sid) ==
    Window(StartIndex) \subseteq
        {w.segment_index : w \in {x \in submitted : x.session_id = sid}}

\* the session sid has ended, playback has left Loading and Playing, or the
\* cursor has left the start index
PlaySuperseded(sid) ==
    \/ current_session.session_id # sid
    \/ playback_state \notin {"Loading", "Playing"}
    \/ current_segment_index # StartIndex

FetchInFlight ==
    /\ HasSession
    /\ BagCount(api_tasks, LoadAudio(current_session.novel_id, current_segment_index,
                                     current_session.voice_id)) > 0

\* C11: with playback Loading and the cursor segment ready, one audio-fetch
\* request is sent for the cursor segment whatever acknowledgements and pushes
\* report it ready (a report that finds the fetch in flight sends no second
\* one), and playback becomes Playing when the fetch succeeds.
C11_OneFetchThenPlaying ==
    [][/\ (/\ last'.op \in {"InferSubmitted", "WsTaskStateChanged"}
           /\ ~last'.old
           /\ HasSession
           /\ last'.sid = current_session.session_id
           /\ playback_state = "Loading"
           /\ current_segment_index \in last'.ready
           /\ FetchInFlight)
          => Sent(emitted', "LoadAudio") = {}
       /\ (/\ last'.op = "AudioLoaded"
           /\ ~last'.old
           /\ last'.idx = current_segment_index
           /\ playback_state = "Loading")
          => playback_state' = "Playing"]_vars

\* C12: a finished signal handled while Playing at the last segment
\* (cursor + 1 >= total) sets playback to Stopped, leaves the cursor and the
\* table as they are and sends no request.
C12_FinishedAtEnd ==
    [][(/\ last'.op = "AudioFinished"
        /\ playback_state = "Playing"
        /\ HasSession
        /\ current_segment_index + 1 >= total_segments)
         => /\ playback_state' = "Stopped"
            /\ UNCHANGED <<current_segment_index, current_session, tasks>>
            /\ emitted' = <<>>]_vars

\* the last segment of the novel has finished playing
C12_Witness ==
    /\ last.op = "AudioFinished"
    /\ last.arg = "Playing"
    /\ last.pre_sid # 0
    /\ last.idx + 1 = total_segments
    /\ current_segment_index = last.idx
    /\ playback_state = "Stopped"
    /\ DOMAIN tasks # {}

\* C13: a finished signal handled while Playing at a cursor that is not the
\* last segment moves the cursor forward by exactly one, submits exactly the
\* indices of the new cursor's window that have no entry, and either sends an
\* audio-fetch request for the new cursor when its entry is Ready or sets
\* playback to Loading otherwise; afterwards every index of the new window
\* has an entry.
C13_FinishedAdvances ==
    [][(/\ last'.op = "AudioFinished"
        /\ playback_state = "Playing"
        /\ HasSession
        /\ current_segment_index + 1 < total_segments)
         => LET next_index == current_segment_index + 1
                missing == Window(next_index) \ DOMAIN tasks
                fetch == LoadAudio(current_session.novel_id, next_index,
                                   current_session.voice_id)
            IN /\ current_segment_index' = next_index
               /\ current_session'.current_index = next_index
               /\ next_index <= total_segments - 1
               /\ \A k \in Sent(emitted', "SubmitInfer") :
                     /\ Range(emitted'[k].segment_indices) = missing
                     /\ emitted'[k].session_id = current_session.session_id
               /\ Cardinality(Sent(emitted', "SubmitInfer")) =
                     IF missing = {} THEN 0 ELSE 1
               /\ IF next_index \in DOMAIN tasks /\ tasks[next_index].state = "Ready"
                  THEN /\ {emitted'[k] : k \in Sent(emitted', "LoadAudio")} = {fetch}
                       /\ Cardinality(Sent(emitted', "LoadAudio")) = 1
                       /\ playback_state' = "Playing"
                  ELSE /\ Sent(emitted', "LoadAudio") = {}
                       /\ playback_state' = "Loading"
               /\ Window(next_index) \subseteq DOMAIN tasks']_vars

\* the cursor advanced onto a Ready segment: its audio was fetched and the
\* index that entered the window was submitted
C13_Witness ==
    /\ last.op = "AudioFinished"
    /\ last.arg = "Playing"
    /\ last.pre_sid # 0
    /\ current_segment_index = last.idx + 1
    /\ Sent(emitted, "LoadAudio") # {}
    /\ Sent(emitted, "SubmitInfer") # {}
    /\ playback_state = "Playing"

\* C14: once the cursor segment's entry is Failed, and until a seek, a voice
\* change or the end of the session drops the table, no submission contains
\* that index, its entry is not removed, no audio-fetch request is sent for
\* it and the cursor does not move past it.
C14_FailedBlocks ==
    [][last'.op \notin ClearingOps =>
         \A i \in last'.failed :
            /\ \A k \in Sent(emitted', "SubmitInfer") :
                  i \notin Range(emitted'[k].segment_indices)
            /\ i \in DOMAIN tasks'
            /\ \A k \in Sent(emitted', "LoadAudio") : emitted'[k].segment_index # i
            /\ current_segment_index' <= i]_vars

\* C15: for each audio buffer handed to the audio worker at most one finished
\* event is emitted, whether the event is counted for the buffer the worker
\* reported finished or for the buffer handed over last, however many polls
\* and whatever pause, resume or stop commands follow.
C15_OneFinishedPerBuffer ==
    /\ \A b \in DOMAIN finished_tagged : finished_tagged[b] <= 1
    /\ \A b \in DOMAIN finished_events : finished_events[b] <= 1

\* the first buffer's finished event was sent, a stop command followed and
\* its Idle status was polled, and no second event was sent
C15_Witness ==
    /\ finished_events = <<1>>
    /\ finished_tagged = <<1>>
    /\ has_notified_finished
    /\ current_status = Status("Idle", 0)
    /\ command_tx = <<>>
    /\ status_rx = <<>>

\* index i of the current window was removed as stale and has no entry, while
\* a session is active and playback is Playing or Loading
PurgedMissing(i) ==
    /\ i \in last.purged
    /\ i \notin DOMAIN tasks
    /\ HasSession
    /\ playback_state \in {"Playing", "Loading"}
    /\ i \in Window(current_session.current_index)

\* C16: a Pending entry of the current window removed as stale, while a
\* session is active and playback is Playing or Loading, is submitted again by
\* the next firing of the periodic resubmit, which inserts a Pending entry for
\* it; the index is not left without an entry.
C16_PurgedResubmitted ==
    /\ [][last'.op = "PrefetchTick" =>
            \A i \in Indices :
               PurgedMissing(i) =>
                  /\ \E k \in Sent(emitted', "SubmitInfer") :
                        /\ i \in Range(emitted'[k].segment_indices)
                        /\ emitted'[k].session_id = current_session.session_id
                  /\ i \in DOMAIN tasks'
                  /\ tasks'[i] = SegmentTask(current_session.session_id, 0, "Pending",
                                             0, 0, now)]_vars
    /\ \A i \in Indices : PurgedMissing(i) ~> ~PurgedMissing(i)

\* the periodic resubmit has just submitted an index that cleanup had removed
C16_Witness ==
    /\ last.op = "PrefetchTick"
    /\ \E i \in last.purged :
          /\ \E k \in Sent(emitted, "SubmitInfer") : i \in Range(emitted[k].segment_indices)
          /\ i \in DOMAIN tasks
          /\ tasks[i].state = "Pending"
          /\ tasks[i].created_at = now
          /\ now > PendingTimeout

\* C17: calculate_prefetch_range(cursor, total) returns exactly the indices i
\* with cursor <= i <= min(cursor + ahead, total - 1) that have no entry in
\* the table, each once, none below the cursor and none at or above total;
\* it returns nothing when total = 0 or cursor >= total.
C17_RangeExact ==
    last.op = "calculate_prefetch_range" =>
       LET cursor == last.current_index
           total == last.total_segments
           want == {i \in cursor..Min(cursor + prefetch_ahead, total - 1) :
                      i \notin DOMAIN tasks}
       IN /\ Range(last.ret) = want
          /\ Len(last.ret) = Cardinality(want)
          /\ \A k \in DOMAIN last.ret : last.ret[k] >= cursor /\ last.ret[k] < total
          /\ (total = 0 \/ cursor >= total) => last.ret = <<>>

\* a window cut by the total with one of its indices already in the table
C17_Witness ==
    /\ last.op = "calculate_prefetch_range"
    /\ prefetch_ahead = PrefetchAhead
    /\ last.current_index = 2
    /\ last.total_segments = 5
    /\ DOMAIN tasks = {1, 4}
    /\ last.ret = <<2, 3>>

\* C18: calculate_prefetch_range does not modify the table, and a second call
\* with the same arguments on the table it left returns the same indices.
C18_CalculateIsPure ==
    [][last'.op = "calculate_prefetch_range" =>
         /\ tasks' = tasks
         /\ prefetch_ahead' = prefetch_ahead
         /\ calculate_prefetch_range(tasks', prefetch_ahead', last'.current_index,
                                     last'.total_segments) = last'.ret]_vars

\* a call that returned indices on a table holding entries in several states
C18_Witness ==
    /\ last.op = "calculate_prefetch_range"
    /\ last.ret # <<>>
    /\ \E i, j \in DOMAIN tasks : tasks[i].state = "Pending" /\ tasks[j].state = "Ready"

\* C19: add_pending_tasks inserts a Pending entry with an empty task id for
\* each given index that has no entry, leaves every existing entry as it was,
\* and applied a second time with the same arguments changes nothing more.
C19_AddPendingOnlyMissing ==
    [][last'.op = "add_pending_tasks" =>
         LET given == Range(last'.indices)
         IN /\ DOMAIN tasks' = DOMAIN tasks \cup given
            /\ \A i \in DOMAIN tasks : tasks'[i] = tasks[i]
            /\ \A i \in given \ DOMAIN tasks :
                  tasks'[i] = SegmentTask(last'.session_id, 0, "Pending", 0, 0, now)
            /\ \A at \in now..MaxNow :
                  add_pending_tasks(tasks', last'.session_id, last'.indices, at) = tasks']_vars

\* a call, later than the first entries, that found one of its indices Ready
\* in the table and inserted the other
C19_Witness ==
    /\ last.op = "add_pending_tasks"
    /\ last.indices = <<1, 4>>
    /\ DOMAIN tasks = {1, 4}
    /\ tasks[1].state = "Ready"
    /\ tasks[1].created_at < now
    /\ tasks[4] = SegmentTask(last.session_id, 0, "Pending", 0, 0, now)

\* C20: cleanup_stale_pending(timeout) removes exactly the Pending entries
\* older than the timeout: an entry in another state is never removed, a
\* Pending entry whose age is at most the timeout is kept, and the entries
\* kept are unchanged.
C20_CleanupOnlyStalePending ==
    [][last'.op = "cleanup_stale_pending" =>
         LET stale == {i \in DOMAIN tasks :
                         /\ tasks[i].state = "Pending"
                         /\ now - tasks[i].created_at > last'.timeout_secs}
         IN /\ DOMAIN tasks' = DOMAIN tasks \ stale
            /\ \A i \in DOMAIN tasks' : tasks'[i] = tasks[i]]_vars

\* a cleanup that removed an entry, kept a Ready entry older than the timeout
\* and kept a Pending entry younger than it
C20_Witness ==
    /\ last.op = "cleanup_stale_pending"
    /\ last.removed # {}
    /\ \E i, j \in DOMAIN tasks :
          /\ tasks[i].state = "Ready"
          /\ now - tasks[i].created_at > last.timeout_secs
          /\ tasks[j].state = "Pending"
          /\ now - tasks[j].created_at <= last.timeout_secs

\* C21: an error response to any request leaves the session, the cursor, the
\* task table and the playback state as they were before it was applied;
\* only the error message is set, and nothing is sent.
C21_ErrorOnlySetsMessage ==
    [][last'.op = "ApiError" =>
         /\ error' # "none"
         /\ UNCHANGED <<current_session, current_segment_index, tasks, playback_state,
                        waiting_for_audio, view, selected_novel, segments_len,
                        loaded_range, total_segments, prefetch_ahead, sink>>
         /\ emitted' = <<>>
         /\ emitted_audio' = <<>>]_vars

\* an audio fetch failed while a session was loading its cursor segment
C21_Witness ==
    /\ last.op = "ApiError"
    /\ last.arg = "LoadAudio"
    /\ ~last.old
    /\ HasSession
    /\ playback_state = "Loading"
    /\ DOMAIN tasks # {}
    /\ error = "api"

\* C22: between two clears of the table, an entry that is Ready stays Ready:
\* no submission acknowledgement and no push notification of the active
\* session for its index moves it back to Pending or Inferring.
C22_ReadyStaysReady ==
    [][(/\ last'.op \in {"InferSubmitted", "WsTaskStateChanged"}
        /\ ~last'.old
        /\ HasSession
        /\ last'.sid = current_session.session_id) =>
         \A i \in DOMAIN tasks :
            tasks[i].state = "Ready" =>
               /\ i \in DOMAIN tasks'
               /\ tasks'[i].state \notin {"Pending", "Inferring"}]_vars

\* C23: a close acknowledgement naming a session other than the active one
\* leaves the active session, its task table and the playback state
\* unchanged.
C23_StaleCloseIgnored ==
    [][(/\ last'.op = "SessionClosed"
        /\ HasSession
        /\ last'.sid # current_session.session_id) =>
         UNCHANGED <<current_session, tasks, playback_state>>]_vars

\* C24: an audio-fetch response of the active session and voice hands audio
\* to the audio player only if its segment index equals the cursor; a
\* response for another index, overtaken by a seek or by an advance of the
\* cursor, plays nothing.
C24_OnlyCursorAudioPlays ==
    [][(/\ last'.op = "AudioLoaded"
        /\ ~last'.old
        /\ last'.idx # current_segment_index) =>
         emitted_audio' = <<>>]_vars

\* C25: a Finished status of the previous track still queued when a new
\* buffer is handed to the audio worker is not taken as the finish of the new
\* track: every finished event sent while a buffer is the one handed over
\* last reports that buffer's own end, so the cursor only advances after it
\* has played.
C25_FinishOfLatestBuffer ==
    \A b \in DOMAIN finished_events : finished_events[b] <= finished_tagged[b]

\* C26: when a finished signal moves the cursor onto a segment whose entry is
\* already Ready, playback is Loading from that step on, and it only turns
\* from Loading to Playing when the audio fetched for the cursor arrives.
C26_LoadingUntilFetched ==
    [][/\ (/\ last'.op = "AudioFinished"
           /\ playback_state = "Playing"
           /\ HasSession
           /\ current_segment_index' = current_segment_index + 1
           /\ current_segment_index' \in DOMAIN tasks
           /\ tasks[current_segment_index'].state = "Ready")
          => playback_state' = "Loading"
       /\ (playback_state = "Loading" /\ playback_state' = "Playing")
          => (last'.op = "AudioLoaded" /\ last'.idx = current_segment_index')]_vars

\* C27: no lost wake-up. Whenever a session is active, playback is Loading and
\* the cursor segment's entry is Ready, an audio-fetch request for the cursor
\* segment is in flight (or a play, seek, voice change or close is, whose
\* response restarts the playback), also after a fetch that was answered
\* not-ready or with an error.
C27_NoLostWakeup ==
    (/\ HasSession
     /\ playback_state = "Loading"
     /\ current_segment_index \in DOMAIN tasks
     /\ tasks[current_segment_index].state = "Ready")
      => \/ FetchInFlight
         \/ \E r \in DOMAIN api_tasks :
               r.type \in {"Play", "Seek", "ChangeVoice", "CloseSession"}

\* C28: after the user's stop intent, and until the next intent of the user or
\* the response that starts, moves or ends a session, playback stays Stopped
\* and no audio-fetch request is sent, also when an acknowledgement or a push
\* reports the cursor segment ready in the meantime.
C28_StopHolds ==
    [][(last.stopped /\ last'.stopped)
         => /\ playback_state' = "Stopped"
            /\ Sent(emitted', "LoadAudio") = {}]_vars

\* the indices of the submission whose acknowledgement the step handled
Acked ==
    UNION {Range(r.segment_indices) :
             r \in {q \in DOMAIN api_tasks :
                      /\ q.type = "SubmitInfer"
                      /\ BagCount(api_tasks', q) < BagCount(api_tasks, q)}}

\* C29: handling a submission acknowledgement changes, for each acknowledged
\* index that has an entry, only the task id and the state of that entry (its
\* session id, timestamp, duration and error stay); it changes no other entry
\* and inserts no entry for an acknowledged index that has none.
C29_AckChangesIdAndState ==
    [][last'.op = "InferSubmitted"
         => /\ DOMAIN tasks' = DOMAIN tasks
            /\ \A i \in DOMAIN tasks :
                  /\ tasks'[i].session_id = tasks[i].session_id
                  /\ tasks'[i].created_at = tasks[i].created_at
                  /\ tasks'[i].duration_ms = tasks[i].duration_ms
                  /\ tasks'[i].error = tasks[i].error
                  /\ i \notin Acked => tasks'[i] = tasks[i]]_vars

\* an acknowledgement was handled that reported ready an index without an
\* entry and an index whose entry it updated, next to an entry it left alone
C29_Witness ==
    /\ last.op = "InferSubmitted"
    /\ ~last.old
    /\ \E i \in last.ready : i \notin DOMAIN tasks
    /\ \E j \in last.ready :
          /\ j \in DOMAIN tasks
          /\ tasks[j].state = "Ready"
          /\ tasks[j].task_id = ServerTaskId(last.sid, j)
          /\ tasks[j].session_id = last.sid
    /\ \E k \in DOMAIN tasks : k \notin last.ready /\ tasks[k].state = "Pending"

\* C30: a push for the active session whose index has no entry is not dropped:
\* it inserts an entry for that index directly in the notified state, with
\* the notified task id, duration and error, and leaves the other entries.
C30_PushInsertsMissing ==
    [][(/\ last'.op = "WsTaskStateChanged"
        /\ HasSession
        /\ last'.sid = current_session.session_id
        /\ last'.idx \notin DOMAIN tasks)
         => /\ DOMAIN tasks' = DOMAIN tasks \cup {last'.idx}
            /\ tasks'[last'.idx] =
                 SegmentTask(last'.sid, ServerTaskId(last'.sid, last'.idx),
                             TaskStateFrom(last'.arg), ServerDuration(last'.arg),
                             ServerError(last'.arg), now)
            /\ \A i \in DOMAIN tasks : tasks'[i] = tasks[i]]_vars

\* a push reported ready an index whose Pending entry the cleanup had removed
\* and that had no entry since: the entry is there again, Ready
C30_Witness ==
    /\ last.op = "WsTaskStateChanged"
    /\ ~last.old
    /\ HasSession
    /\ last.sid = current_session.session_id
    /\ last.idx \in last.purged
    /\ last.idx \in DOMAIN tasks
    /\ tasks[last.idx].state = "Ready"
    /\ tasks[last.idx].task_id = ServerTaskId(last.sid, last.idx)

\* C31: a push for the active session about index i sets entry i to the
\* notified state and leaves every other entry of the table unchanged; when i
\* is not the cursor, no audio-fetch request is sent and the playback state is
\* unchanged.
C31_PushSetsOneEntry ==
    [][(/\ last'.op = "WsTaskStateChanged"
        /\ HasSession
        /\ last'.sid = current_session.session_id)
         => /\ last'.idx \in DOMAIN tasks'
            /\ tasks'[last'.idx].state = TaskStateFrom(last'.arg)
            /\ DOMAIN tasks' \ {last'.idx} = DOMAIN tasks \ {last'.idx}
            /\ \A j \in DOMAIN tasks \ {last'.idx} : tasks'[j] = tasks[j]
            /\ last'.idx # current_segment_index
                 => /\ Sent(emitted', "LoadAudio") = {}
                    /\ playback_state' = playback_state]_vars

\* a push reported ready a segment ahead of the cursor while playback was
\* Loading: its entry is Ready, the others are still Pending
C31_Witness ==
    /\ last.op = "WsTaskStateChanged"
    /\ ~last.old
    /\ HasSession
    /\ last.sid = current_session.session_id
    /\ last.idx # current_segment_index
    /\ last.idx \in DOMAIN tasks
    /\ tasks[last.idx].state = "Ready"
    /\ playback_state = "Loading"
    /\ \E j \in DOMAIN tasks : j # last.idx /\ tasks[j].state = "Pending"

\* C32: a closed notification of the server takes effect only when it names
\* the active session: for any other session id, or with no session active,
\* the session, the task table, the cursor and the playback state are
\* unchanged.
C32_OtherCloseIgnored ==
    [][(/\ last'.op = "WsSessionClosedByServer"
        /\ (~HasSession \/ last'.sid # current_session.session_id))
         => UNCHANGED <<current_session, tasks, current_segment_index,
                        playback_state>>]_vars

\* the server closed an earlier session while a later one was active with
\* entries in its table and playback under way
C32_Witness ==
    /\ last.op = "WsSessionClosedByServer"
    /\ HasSession
    /\ last.sid # current_session.session_id
    /\ DOMAIN tasks # {}
    /\ playback_state \in {"Loading", "Playing"}

\* C33: every audio-fetch request is for the cursor segment of the active
\* session, and when it is sent the table holds a Ready entry for that
\* segment (steps that handle a response or push of a closed or replaced
\* session aside).
C33_FetchOnlyReadyCursor ==
    [][~last'.old =>
         \A k \in Sent(emitted', "LoadAudio") :
            /\ current_session'.session_id # 0
            /\ emitted'[k] = LoadAudio(current_session'.novel_id,
                                       current_segment_index',
                                       current_session'.voice_id)
            /\ current_segment_index' \in DOMAIN tasks'
            /\ tasks'[current_segment_index'].state = "Ready"]_vars

\* C34: whenever no session is active the playback state is Stopped, whatever
\* late responses arrive after the session ended.
C34_NoSessionStopped ==
    ~HasSession => playback_state = "Stopped"

\* C35: a finished signal handled while playback is not Playing (Loading,
\* Paused or Stopped), or while no session is active, changes neither the
\* cursor, the table, the session nor the playback state and sends no
\* request.
C35_FinishedIgnored ==
    [][(/\ last'.op = "AudioFinished"
        /\ (playback_state # "Playing" \/ ~HasSession))
         => /\ UNCHANGED <<current_segment_index, tasks, current_session,
                           playback_state, waiting_for_audio>>
            /\ emitted' = <<>>
            /\ emitted_audio' = <<>>]_vars

\* the audio ran out while playback was Paused, Loading or Stopped with a
\* session whose cursor is not the last segment and has a table
C35_Witness ==
    /\ last.op = "AudioFinished"
    /\ last.arg \in {"Loading", "Paused", "Stopped"}
    /\ HasSession
    /\ playback_state = last.arg
    /\ current_segment_index + 1 < total_segments
    /\ DOMAIN tasks # {}

\* C36: in every reachable state an entry carries an error message only if
\* its state is Failed, whatever acknowledgements and pushes produced it.
C36_ErrorOnlyWhenFailed ==
    \A i \in DOMAIN tasks : tasks[i].error # 0 => tasks[i].state = "Failed"

\* C37: a stop intent of the user in Loading, Playing or Paused sets playback
\* to Stopped and tells the audio player to stop; the task table, the session
\* and the cursor are unchanged and no request is sent.
C37_StopFrame ==
    [][last'.op = "UiStop"
         => /\ playback_state \in {"Loading", "Playing", "Paused"}
            /\ playback_state' = "Stopped"
            /\ emitted_audio' = <<"Stop">>
            /\ emitted' = <<>>
            /\ UNCHANGED <<tasks, current_session, current_segment_index>>]_vars

\* the user stopped a playback that was Playing or Paused with a table
C37_Witness ==
    /\ last.op = "UiStop"
    /\ last.arg \in {"Playing", "Paused"}
    /\ HasSession
    /\ DOMAIN tasks # {}
    /\ playback_state = "Stopped"
    /\ emitted_audio = <<"Stop">>

\* C38: when the session ends, by the acknowledgement of a close or by a
\* closed notification of the server for the active session, the audio player
\* has been told to stop: no audio keeps playing once the session is gone.
C38_CloseStopsAudio ==
    [][(/\ last'.op \in {"SessionClosed", "WsSessionClosedByServer"}
        /\ HasSession
        /\ current_session'.session_id = 0)
         => sink' # "playing"]_vars

\* C39: a play intent of the user in Stopped with an active session submits
\* the indices of the cursor's window that have no entry and moves playback to
\* Loading; when the cursor segment's entry is already Ready it also sends an
\* audio-fetch request for the cursor segment, otherwise it sends none and
\* waits.
C39_PlayButton ==
    [][last'.op = "UiPlayButton"
         => LET missing == Window(current_segment_index) \ DOMAIN tasks
                fetch == LoadAudio(current_session.novel_id, current_segment_index,
                                   current_session.voice_id)
            IN /\ \A k \in Sent(emitted', "SubmitInfer") :
                     /\ Range(emitted'[k].segment_indices) = missing
                     /\ emitted'[k].session_id = current_session.session_id
               /\ Cardinality(Sent(emitted', "SubmitInfer")) =
                     IF missing = {} THEN 0 ELSE 1
               /\ playback_state' = "Loading"
               /\ IF /\ current_segment_index \in DOMAIN tasks
                     /\ tasks[current_segment_index].state = "Ready"
                  THEN /\ {emitted'[k] : k \in Sent(emitted', "LoadAudio")} = {fetch}
                       /\ Cardinality(Sent(emitted', "LoadAudio")) = 1
                  ELSE /\ Sent(emitted', "LoadAudio") = {}
                       /\ waiting_for_audio']_vars

\* C40: whenever a session is active, the cursor of the session
\* (current_index, from which the prefetch window is computed) equals the
\* current segment index of the engine (for which audio is fetched and
\* accepted), after any play, seek and voice-change acknowledgements and
\* finished signals.
C40_CursorsAgree ==
    HasSession => current_session.current_index = current_segment_index

\* a finished signal moved both cursors of the active session forward
C40_Witness ==
    /\ last.op = "AudioFinished"
    /\ last.arg = "Playing"
    /\ HasSession
    /\ current_segment_index = last.idx + 1
    /\ current_session.current_index = last.idx + 1

====
